---- MODULE Spec2Model ----
(***************************************************************************)
(* Report synthesis pipeline of APILog (back/app/plugins/widgets/ai_report) *)
(* as a state machine: the JSON extraction of model output, the            *)
(* deterministic insight engine and generate_report.                       *)
(*                                                                         *)
(* Texts are sequences of lexical units.  Every structural character       *)
(* ({ } [ ] " \ , : space newline) is one unit, and a maximal run of       *)
(* ordinary characters (a word, a number, a code fence's backticks) is one *)
(* unit: neither json.loads nor the brace scanner of _extract_json looks   *)
(* inside such a run other than to read a literal or a number.             *)
(***************************************************************************)
EXTENDS Integers, Sequences, FiniteSets, TLC

VARIABLES
    text,          \* the model output handed to _extract_json
    origin,        \* how the text was produced (kind, intended object)
    extracted,     \* what _extract_json returned
    pc,            \* position of the running call
    env,           \* generate_report: the widget surface and its faults
    provider,      \* generate_report: LLM_PROVIDER
    request,       \* generate_report: the arguments of the call and its clock reading
    bundle,        \* generate_report: what _collect_widget_data returned
    deterministic, \* generate_report: what InsightGenerator.build returned
    reply,         \* generate_report: what the model client did
    report,        \* generate_report: the document returned, or the exception raised
    calls,         \* generate_report: how often the model client has been invoked
    fetched,       \* _collect_widget_data: the endpoints it has sent a GET to
    collects,      \* how often _collect_widget_data has been invoked, over all requests
    served,        \* post_ai_report: the documents returned to earlier requests
    cache,         \* ai_insights: the entry of _cache under one key, () when there is none
    clock,         \* ai_insights: what time.time() reads, in seconds
    thr,           \* ai_insights: where each request thread stands in build_digest
    stored,        \* ai_insights: the times at which _cache_set has stored an entry
    requests,      \* ai_insights: how many calls of build_digest have begun
    llm,           \* one call of a model client: its configuration, the requests sent, its outcome
    visitors,      \* visitors_stat: the day, the store, _CACHE and the threads in _get_day_stat
    widgets        \* dynamic widgets: _LOADED, _WIDGETS, the holder of _STORE_LOCK and the threads

digests == <<cache, clock, thr, stored, requests>>

services == <<llm, visitors, widgets>>

vars == <<text, origin, extracted, pc, env, provider, request, bundle, deterministic, reply, report, calls, fetched,
          collects, served, digests, services>>

pipeline == <<env, provider, request, bundle, deterministic, reply, report, calls, fetched, collects, served>>

(***************************************************************************)
(* JSON values as Python holds them after json.loads.  One record shape    *)
(* for every kind, so that any two values can be compared.                 *)
(***************************************************************************)
EmptyMap == [k \in {} |-> 0]

JNull == [kind |-> "null", num |-> 0, str |-> <<>>, items |-> <<>>, members |-> EmptyMap]

JTrue == [kind |-> "bool", num |-> 1, str |-> <<>>, items |-> <<>>, members |-> EmptyMap]

JNum(n) == [kind |-> "num", num |-> n, str |-> <<>>, items |-> <<>>, members |-> EmptyMap]

JStr(s) == [kind |-> "str", num |-> 0, str |-> s, items |-> <<>>, members |-> EmptyMap]

JArr(xs) == [kind |-> "list", num |-> 0, str |-> <<>>, items |-> xs, members |-> EmptyMap]

JObj(m) == [kind |-> "dict", num |-> 0, str |-> <<>>, items |-> <<>>, members |-> m]

EmptyDict == JObj(EmptyMap)

\* isinstance(v, dict), isinstance(v, list)
IsDict(v) == v.kind = "dict"

IsList(v) == v.kind = "list"

\* d[key] = value on a dict's mapping: a repeated key keeps the last value
MapPut(m, key, value) == [k \in (DOMAIN m) \cup {key} |-> IF k = key THEN value ELSE m[k]]

\* d.get(key): None when the key is absent
Get(d, key) == IF IsDict(d) /\ key \in DOMAIN d.members THEN d.members[key] ELSE JNull

\* Python truthiness of a JSON value (bool(v))
Truthy(v) ==
    CASE v.kind = "null" -> FALSE
      [] v.kind = "bool" -> v.num = 1
      [] v.kind = "num"  -> v.num # 0
      [] v.kind = "str"  -> v.str # <<>>
      [] v.kind = "list" -> v.items # <<>>
      [] v.kind = "dict" -> DOMAIN v.members # {}
      [] OTHER -> TRUE

(***************************************************************************)
(* json.loads, as CPython's json.decoder reads a text: optional white      *)
(* space, one value, optional white space, end of text.                    *)
(***************************************************************************)
WhiteSpace == {" ", "\n"}

\* the digit runs the texts use, with the integers they denote
NumberOf == [u \in {"0", "1", "12", "20", "30", "58", "74", "130"} |->
               CASE u = "0" -> 0 [] u = "1" -> 1 [] u = "12" -> 12 [] u = "20" -> 20 [] u = "30" -> 30
                 [] u = "58" -> 58 [] u = "74" -> 74 [] OTHER -> 130]

ParseFail == [ok |-> FALSE, val |-> JNull, pos |-> 0]

ParseOk(v, p) == [ok |-> TRUE, val |-> v, pos |-> p]

RECURSIVE SkipWs(_, _)
SkipWs(t, i) == IF i <= Len(t) /\ t[i] \in WhiteSpace THEN SkipWs(t, i + 1) ELSE i

\* py_scanstring with strict=True: the unit after the opening quote onwards
RECURSIVE ParseString(_, _, _)
ParseString(t, i, acc) ==
    IF i > Len(t) THEN ParseFail
    ELSE IF t[i] = "\"" THEN ParseOk(JStr(acc), i + 1)
    ELSE IF t[i] = "\n" THEN ParseFail
    ELSE IF t[i] = "\\"
         THEN IF i + 1 <= Len(t) /\ t[i + 1] \in {"\"", "\\"}
              THEN ParseString(t, i + 2, Append(acc, t[i + 1]))
              ELSE ParseFail
    ELSE ParseString(t, i + 1, Append(acc, t[i]))

RECURSIVE ParseValue(_, _)
RECURSIVE ParseMembers(_, _, _)
RECURSIVE ParseItems(_, _, _)

\* JSONObject after a member's value or after the opening brace: i is at a key's quote
ParseMembers(t, i, m) ==
    IF i > Len(t) \/ t[i] # "\"" THEN ParseFail
    ELSE LET key == ParseString(t, i + 1, <<>>) IN
         IF ~key.ok THEN ParseFail
         ELSE LET c == SkipWs(t, key.pos) IN
              IF c > Len(t) \/ t[c] # ":" THEN ParseFail
              ELSE LET v == ParseValue(t, SkipWs(t, c + 1)) IN
                   IF ~v.ok THEN ParseFail
                   ELSE LET e == SkipWs(t, v.pos)
                            m2 == MapPut(m, key.val.str, v.val)
                        IN IF e > Len(t) THEN ParseFail
                           ELSE IF t[e] = "}" THEN ParseOk(JObj(m2), e + 1)
                           ELSE IF t[e] = "," THEN ParseMembers(t, SkipWs(t, e + 1), m2)
                           ELSE ParseFail

\* JSONArray: i is at the first unit of the next element
ParseItems(t, i, xs) ==
    LET v == ParseValue(t, i) IN
    IF ~v.ok THEN ParseFail
    ELSE LET e == SkipWs(t, v.pos)
             xs2 == Append(xs, v.val)
         IN IF e > Len(t) THEN ParseFail
            ELSE IF t[e] = "]" THEN ParseOk(JArr(xs2), e + 1)
            ELSE IF t[e] = "," THEN ParseItems(t, SkipWs(t, e + 1), xs2)
            ELSE ParseFail

\* scan_once: one value starting exactly at i
ParseValue(t, i) ==
    IF i > Len(t) THEN ParseFail
    ELSE IF t[i] = "\"" THEN ParseString(t, i + 1, <<>>)
    ELSE IF t[i] = "{"
         THEN LET j == SkipWs(t, i + 1) IN
              IF j <= Len(t) /\ t[j] = "}" THEN ParseOk(EmptyDict, j + 1)
              ELSE ParseMembers(t, j, EmptyMap)
    ELSE IF t[i] = "["
         THEN LET j == SkipWs(t, i + 1) IN
              IF j <= Len(t) /\ t[j] = "]" THEN ParseOk(JArr(<<>>), j + 1)
              ELSE ParseItems(t, j, <<>>)
    ELSE IF t[i] = "null" THEN ParseOk(JNull, i + 1)
    ELSE IF t[i] = "true" THEN ParseOk(JTrue, i + 1)
    ELSE IF t[i] \in DOMAIN NumberOf THEN ParseOk(JNum(NumberOf[t[i]]), i + 1)
    ELSE ParseFail

\* json.loads(text): ok = FALSE stands for the JSONDecodeError it raises
loads(t) ==
    LET r == ParseValue(t, SkipWs(t, 1)) IN
    IF r.ok /\ SkipWs(t, r.pos) > Len(t) THEN r ELSE ParseFail

(***************************************************************************)
(* json.dumps with its default separators (", " and ": "): the strict JSON *)
(* serialization of a value.                                               *)
(***************************************************************************)
NumText(n) == CHOOSE u \in DOMAIN NumberOf : NumberOf[u] = n

\* py_encode_basestring: a quote and a backslash are escaped with a backslash
RECURSIVE EscapeUnits(_)
EscapeUnits(s) ==
    IF s = <<>> THEN <<>>
    ELSE (IF Head(s) \in {"\"", "\\"} THEN <<"\\", Head(s)>> ELSE <<Head(s)>>)
         \o EscapeUnits(Tail(s))

RECURSIVE dumps(_)
RECURSIVE DumpItems(_)
RECURSIVE DumpMembers(_, _)

DumpItems(xs) ==
    IF xs = <<>> THEN <<>>
    ELSE dumps(Head(xs)) \o (IF Tail(xs) = <<>> THEN <<>> ELSE <<",", " ">>) \o DumpItems(Tail(xs))

DumpMembers(m, keys) ==
    IF keys = {} THEN <<>>
    ELSE LET k == CHOOSE x \in keys : TRUE
             rest == keys \ {k}
         IN <<"\"">> \o EscapeUnits(k) \o <<"\"", ":", " ">> \o dumps(m[k])
            \o (IF rest = {} THEN <<>> ELSE <<",", " ">>) \o DumpMembers(m, rest)

dumps(v) ==
    CASE v.kind = "null" -> <<"null">>
      [] v.kind = "bool" -> <<"true">>
      [] v.kind = "num"  -> <<NumText(v.num)>>
      [] v.kind = "str"  -> <<"\"">> \o EscapeUnits(v.str) \o <<"\"">>
      [] v.kind = "list" -> <<"[">> \o DumpItems(v.items) \o <<"]">>
      [] OTHER           -> <<"{">> \o DumpMembers(v.members, DOMAIN v.members) \o <<"}">>

(***************************************************************************)
(* _extract_json (ai_report/service.py 279-311).  A call's outcome is the  *)
(* value it returns, or raised = TRUE when an exception leaves it.         *)
(***************************************************************************)
Returned(v) == [raised |-> FALSE, val |-> v]

Raised == [raised |-> TRUE, val |-> JNull]

\* text.find("{"): the first index holding an opening brace, 0 for -1
RECURSIVE FindBrace(_, _)
FindBrace(t, i) ==
    IF i > Len(t) THEN 0 ELSE IF t[i] = "{" THEN i ELSE FindBrace(t, i + 1)

\* the scan without the escape flag: every double quote inside a string ends it
RECURSIVE ScanBalanced_NoEscape(_, _, _, _, _)
ScanBalanced_NoEscape(t, idx, depth, in_string, escape) ==
    IF idx > Len(t) THEN 0
    ELSE LET ch == t[idx] IN
         IF in_string
         THEN ScanBalanced_NoEscape(t, idx + 1, depth, ch # "\"", FALSE)
         ELSE IF ch = "\"" THEN ScanBalanced_NoEscape(t, idx + 1, depth, TRUE, escape)
              ELSE IF ch = "{" THEN ScanBalanced_NoEscape(t, idx + 1, depth + 1, FALSE, escape)
              ELSE IF ch = "}"
                   THEN IF depth - 1 = 0 THEN idx
                        ELSE ScanBalanced_NoEscape(t, idx + 1, depth - 1, FALSE, escape)
              ELSE ScanBalanced_NoEscape(t, idx + 1, depth, FALSE, escape)

\* the for loop of lines 290-310 from index idx on: the index of the closing
\* brace at which depth returns to zero, 0 when the loop runs off the text
RECURSIVE ScanBalanced(_, _, _, _, _)
ScanBalanced(t, idx, depth, in_string, escape) ==
    IF idx > Len(t) THEN 0
    ELSE LET ch == t[idx] IN
         IF in_string
         THEN IF escape THEN ScanBalanced(t, idx + 1, depth, TRUE, FALSE)
              ELSE IF ch = "\\" THEN ScanBalanced(t, idx + 1, depth, TRUE, TRUE)
              ELSE IF ch = "\"" THEN ScanBalanced(t, idx + 1, depth, FALSE, FALSE)
              ELSE ScanBalanced(t, idx + 1, depth, TRUE, FALSE)
         ELSE IF ch = "\"" THEN ScanBalanced(t, idx + 1, depth, TRUE, escape)
              ELSE IF ch = "{" THEN ScanBalanced(t, idx + 1, depth + 1, FALSE, escape)
              ELSE IF ch = "}"
                   THEN IF depth - 1 = 0 THEN idx
                        ELSE ScanBalanced(t, idx + 1, depth - 1, FALSE, escape)
              ELSE ScanBalanced(t, idx + 1, depth, FALSE, escape)

\* lines 284-311: what follows the failed json.loads of the whole text
BalancedSlice(t) ==
    LET start == FindBrace(t, 1) IN
    IF start = 0 THEN Returned(EmptyDict)
    ELSE LET stop == ScanBalanced(t, start, 0, FALSE, FALSE) IN
         IF stop = 0 THEN Returned(EmptyDict)
         ELSE LET candidate == loads(SubSeq(t, start, stop)) IN
              IF candidate.ok THEN Returned(candidate.val) ELSE Returned(EmptyDict)

\* the extraction without the parse of the whole text and without the string-aware
\* scan: the candidate runs from the first opening to the first closing brace
_extract_json_FirstClose(t) ==
    LET start == FindBrace(t, 1)
        closes == {i \in DOMAIN t : i > start /\ t[i] = "}"}
    IN IF start = 0 \/ closes = {} THEN Returned(EmptyDict)
       ELSE LET idx == CHOOSE i \in closes : \A j \in closes : i <= j
                candidate == loads(SubSeq(t, start, idx))
            IN Returned(IF candidate.ok THEN candidate.val ELSE EmptyDict)

\* _extract_json (279-311): the whole text if it parses, else the balanced slice
_extract_json(t) ==
    LET whole == loads(t) IN
    IF whole.ok THEN Returned(whole.val) ELSE BalancedSlice(t)

(***************************************************************************)
(* Widget payloads and the bundle are JSON values too.  A whole string is  *)
(* one unit; Str and Dict build them from TLA+ strings and records.        *)
(***************************************************************************)
Str(x) == JStr(<<x>>)

Dict(r) == JObj([k \in {<<n>> : n \in DOMAIN r} |-> r[k[1]]])

\* d with d[key] = value
With(d, key, value) == JObj(MapPut(d.members, <<key>>, value))

\* key in d
Has(d, key) == IsDict(d) /\ <<key>> \in DOMAIN d.members

\* d.get(key)
Field(d, key) == Get(d, <<key>>)

\* [x for x in xs if isinstance(x, dict)]
RECURSIVE OnlyDicts(_)
OnlyDicts(xs) ==
    IF xs = <<>> THEN <<>>
    ELSE (IF IsDict(Head(xs)) THEN <<Head(xs)>> ELSE <<>>) \o OnlyDicts(Tail(xs))

\* list(d.values()), in one fixed order of the keys
RECURSIVE ValuesOf(_, _)
ValuesOf(m, keys) ==
    IF keys = {} THEN <<>>
    ELSE LET k == CHOOSE x \in keys : TRUE IN <<m[k]>> \o ValuesOf(m, keys \ {k})

\* _rows (service.py 79-89): the row dicts of a payload, however it wraps them
_rows(payload) ==
    IF IsDict(payload)
    THEN IF IsList(Field(payload, "rows")) THEN OnlyDicts(Field(payload, "rows").items)
         ELSE IF IsList(Field(payload, "data")) THEN OnlyDicts(Field(payload, "data").items)
         ELSE IF IsList(Field(payload, "items")) THEN OnlyDicts(Field(payload, "items").items)
         ELSE IF \A k \in DOMAIN payload.members : IsDict(payload.members[k])
              THEN ValuesOf(payload.members, DOMAIN payload.members)
              ELSE <<>>
    ELSE IF IsList(payload) THEN OnlyDicts(payload.items)
    ELSE <<>>

\* _first_row (service.py 92-94)
_first_row(payload) == IF _rows(payload) = <<>> THEN EmptyDict ELSE _rows(payload)[1]

(***************************************************************************)
(* The widget surface as one request sees it: which GET routes the plugin  *)
(* router holds (every route carries the router's /api/query prefix, so a  *)
(* route is named by its tail), whether discovery or the HTTP client       *)
(* break, and what each endpoint answers.                                  *)
(***************************************************************************)
SimpleGets ==
    << <<"browser_share", "/browser-share">>, <<"daily_count", "/daily-count">>,
       <<"device_share", "/device-share">>, <<"dwell_time", "/dwell-time">>,
       <<"page_exit_rate", "/page-exit-rate">>, <<"time_top_pages", "/time-top-pages">>,
       <<"top_pages", "/top-pages">>, <<"top_buttons_global", "/top-buttons/global">> >>

RouteOrder ==
    <<"/browser-share", "/country-share", "/daily-count", "/device-share", "/dwell-time",
      "/page-exit-rate", "/time-top-pages", "/top-pages", "/top-buttons/global",
      "/top-buttons/paths", "/top-buttons/by-path">>

AllRoutes == {RouteOrder[i] : i \in DOMAIN RouteOrder}

Rows(xs) == Dict([rows |-> JArr(xs)])

GoodBody(rel) ==
    CASE rel = "/browser-share" ->
           Rows(<<Dict([browser |-> Str("chrome"), sessions |-> JNum(70)]),
                  Dict([browser |-> Str("safari"), sessions |-> JNum(30)])>>)
      [] rel = "/daily-count" ->
           Rows(<<Dict([date |-> Str("d1"), cnt |-> JNum(100)]), Dict([date |-> Str("d2"), cnt |-> JNum(100)]),
                  Dict([date |-> Str("d3"), cnt |-> JNum(100)]), Dict([date |-> Str("d4"), cnt |-> JNum(130)])>>)
      [] rel = "/device-share" ->
           With(Rows(<<Dict([device |-> Str("desktop"), sessions |-> JNum(70)]),
                       Dict([device |-> Str("mobile"), sessions |-> JNum(30)])>>),
                "meta", Dict([from |-> Str("t0"), to |-> Str("t1")]))
      [] rel = "/dwell-time" ->
           Rows(<<Dict([path |-> Str("/checkout"), avg_seconds |-> JNum(12)]),
                  Dict([path |-> Str("/home"), avg_seconds |-> JNum(30)])>>)
      [] rel = "/page-exit-rate" ->
           Rows(<<Dict([path |-> Str("/home"), views |-> JNum(200), exits |-> JNum(40), exit_rate |-> JNum(20)]),
                  Dict([path |-> Str("/checkout"), views |-> JNum(100), exits |-> JNum(74), exit_rate |-> JNum(74)])>>)
      [] rel = "/time-top-pages" ->
           Dict([buckets |-> JArr(<<Dict([bucket |-> Str("b1"),
                                          rows |-> JArr(<<Dict([path |-> Str("/home"), total_views |-> JNum(53)])>>)])>>)])
      [] rel = "/top-pages" ->
           Rows(<<Dict([path |-> Str("/home"), views |-> JNum(58)]), Dict([path |-> Str("/checkout"), views |-> JNum(1)])>>)
      [] rel = "/top-buttons/global" ->
           Rows(<<Dict([element_text |-> Str("buy"), count |-> JNum(58)]),
                  Dict([element_text |-> Str("more"), count |-> JNum(1)])>>)
      [] rel = "/top-buttons/paths" ->
           Dict([paths |-> JArr(<<Str("/checkout")>>), rows |-> JArr(<<Dict([path |-> Str("/checkout"), count |-> JNum(1)])>>)])
      [] rel = "/top-buttons/by-path" ->
           Rows(<<Dict([path |-> Str("/checkout"), element_text |-> Str("buy"), count |-> JNum(1)])>>)
      [] OTHER -> Rows(<<Dict([country |-> Str("KR"), sessions |-> JNum(58)])>>)

\* the caps of _shrink (155, 157)
RowsCap == 80

BucketsCap == 60

\* a payload with one row, and one with one bucket, more than the caps
LongRows == Rows([i \in 1..(RowsCap + 1) |-> Dict([views |-> JNum(i)])])

LongBuckets == Dict([buckets |-> JArr([i \in 1..(BucketsCap + 1) |-> Dict([bucket |-> JNum(i)])])])

\* answers an endpoint may give besides its well-formed one
OddBodies(rel) ==
    {Rows(<<>>)}
    \cup (IF rel = "/browser-share" THEN {Str("oops")} ELSE {})
    \cup (IF rel = "/device-share"
          THEN {Rows(<<Dict([device |-> Str("mobile"), sessions |-> Str("nan")])>>),
                Rows(<<Dict([device |-> Str("mobile"), sessions |-> Str("58")]), JNum(1)>>)}
          ELSE {})
    \cup (IF rel = "/dwell-time"
          THEN {Rows(<<Dict([path |-> JArr(<<Str("/home")>>), avg_seconds |-> JNum(12)])>>)}
          ELSE {})
    \cup (IF rel = "/top-buttons/by-path"
          THEN {Rows(<<Dict([path |-> Str("/checkout"), hotspots |-> JArr(<<Str("cta")>>)])>>),
                Rows(<<Dict([path |-> Str("/checkout"), hotspots |-> JArr(<<Dict([text |-> Str("cta")])>>)])>>)}
          ELSE {})
    \cup (IF rel = "/top-buttons/paths" THEN {Dict([paths |-> JArr(<<>>)])} ELSE {})

\* further answers, for the collector on its own: path lists of two entries,
\* arrays over the caps, a daily series that rises steeply
LargeBodies(rel) ==
    (IF rel = "/top-buttons/paths"
     THEN {Dict([paths |-> JArr(<<Str("/home"), Str("/checkout")>>)]),
           Rows(<<Dict([path |-> Str("/home")]), Dict([path |-> Str("/checkout")])>>),
           Rows(<<Dict([count |-> JNum(1)]), Dict([path |-> Str("/checkout")])>>)}
     ELSE {})
    \cup (IF rel \in {"/top-buttons/global", "/top-buttons/by-path", "/country-share"} THEN {LongRows} ELSE {})
    \cup (IF rel = "/time-top-pages" THEN {LongBuckets} ELSE {})
    \cup (IF rel = "/daily-count"
          THEN {Rows(<<Dict([date |-> Str("d1"), cnt |-> JNum(20)]), Dict([date |-> Str("d2"), cnt |-> JNum(130)])>>)}
          ELSE {})

\* what a route answers: a well-formed or odd body (ok), a failed GET (network
\* error, non-2xx status, unparsable body), or no such route on the router (absent)
OkResponse(body) == [status |-> "ok", body |-> body]

FailedResponse == [status |-> "failed", body |-> JNull]

AbsentRoute == [status |-> "absent", body |-> JNull]

Deviations(rel) == {AbsentRoute, FailedResponse} \cup {OkResponse(b) : b \in OddBodies(rel)}

MaxFaulty == 1

\* every surface on which at most MaxFaulty routes deviate from their good answer
Surfaces ==
    UNION {{[rel \in AllRoutes |-> IF rel \in F THEN dev[rel] ELSE OkResponse(GoodBody(rel))]
             : dev \in {f \in [F -> UNION {Deviations(r) : r \in F}] : \A r \in F : f[r] \in Deviations(r)}}
           : F \in {f \in SUBSET AllRoutes : Cardinality(f) <= MaxFaulty}}

GoodSurface == [rel \in AllRoutes |-> OkResponse(GoodBody(rel))]

\* the surface is only seen through discovery and the client: it varies where both work
Environments ==
    {[client_ok |-> TRUE, discovery_ok |-> TRUE, surface |-> sf] : sf \in Surfaces}
    \cup {[client_ok |-> c, discovery_ok |-> d, surface |-> GoodSurface]
            : c \in BOOLEAN, d \in BOOLEAN}

\* the environments the collector is run in on its own: those above, one
\* large answer on a good surface, and every pairing of a path-list answer
\* with a detail answer
CollectorEnvironments ==
    Environments
    \cup {[client_ok |-> TRUE, discovery_ok |-> TRUE,
           surface |-> [GoodSurface EXCEPT ![rel] = OkResponse(b)]]
            : <<rel, b>> \in UNION {{<<r, lb>> : lb \in LargeBodies(r)} : r \in AllRoutes}}
    \cup {[client_ok |-> TRUE, discovery_ok |-> TRUE,
           surface |-> [GoodSurface EXCEPT !["/top-buttons/paths"] = p, !["/top-buttons/by-path"] = d]]
            : p \in Deviations("/top-buttons/paths")
                     \cup {OkResponse(b) : b \in LargeBodies("/top-buttons/paths")},
              d \in Deviations("/top-buttons/by-path")
                     \cup {OkResponse(b) : b \in LargeBodies("/top-buttons/by-path")}}

(***************************************************************************)
(* The Widget Bundle Collector (service.py 97-212).                        *)
(***************************************************************************)
\* a or b, on Python values
Or(a, b) == IF Truthy(a) THEN a ELSE b

\* _discover_query_endpoints (97-124): the router's GET routes in route order, and
\* the empty list when walking the router raises
_discover_query_endpoints(e) ==
    IF e.discovery_ok
    THEN SelectSeq(RouteOrder, LAMBDA rel : e.surface[rel].status # "absent")
    ELSE <<>>

\* _fetch_json (127-133): (ok, data); every exception becomes (False, {error, url})
_fetch_json(e, rel) ==
    IF e.surface[rel].status = "ok"
    THEN [ok |-> TRUE, data |-> e.surface[rel].body]
    ELSE [ok |-> FALSE, data |-> Dict([error |-> Str("error"), url |-> Str(rel)])]

Prefix(xs, n) == IF Len(xs) > n THEN SubSeq(xs, 1, n) ELSE xs

\* _shrink (151-159)
_shrink(payload) ==
    IF ~IsDict(payload) THEN payload
    ELSE LET d1 == IF IsList(Field(payload, "rows")) /\ Len(Field(payload, "rows").items) > RowsCap
                   THEN With(payload, "rows", JArr(Prefix(Field(payload, "rows").items, RowsCap)))
                   ELSE payload
         IN IF IsList(Field(d1, "buckets")) /\ Len(Field(d1, "buckets").items) > BucketsCap
            THEN With(d1, "buckets", JArr(Prefix(Field(d1, "buckets").items, BucketsCap)))
            ELSE d1

FailMarker(data) == Dict([_fail |-> data])

\* the loop over simple_gets (172-175), from its i-th entry on
RECURSIVE CollectSimple(_, _, _, _)
CollectSimple(e, tails, out, i) ==
    IF i > Len(SimpleGets) THEN out
    ELSE LET key == SimpleGets[i][1]
             rel == SimpleGets[i][2]
             got == _fetch_json(e, rel)
         IN IF rel \in tails
            THEN CollectSimple(e, tails,
                               With(out, key, IF got.ok THEN _shrink(got.data) ELSE FailMarker(got.data)),
                               i + 1)
            ELSE CollectSimple(e, tails, out, i + 1)

\* the sampling that takes the last entry of the path list instead of the first
SamplePath_Last(e) ==
    LET listed == _fetch_json(e, "/top-buttons/paths")
        candidates == IF listed.ok /\ IsDict(listed.data)
                      THEN Or(Or(Field(listed.data, "paths"), Field(listed.data, "rows")), JArr(<<>>))
                      ELSE JArr(<<>>)
        first == IF IsList(candidates) /\ candidates.items # <<>>
                 THEN candidates.items[Len(candidates.items)] ELSE JNull
    IN IF first.kind = "str" THEN first
       ELSE IF IsDict(first) THEN Field(first, "path") ELSE JNull

\* lines 180-188: the first path the path list names, None when it names none
SamplePath(e) ==
    LET listed == _fetch_json(e, "/top-buttons/paths")
        candidates == IF listed.ok /\ IsDict(listed.data)
                      THEN Or(Or(Field(listed.data, "paths"), Field(listed.data, "rows")), JArr(<<>>))
                      ELSE JArr(<<>>)
        first == IF IsList(candidates) /\ candidates.items # <<>> THEN candidates.items[1] ELSE JNull
    IN IF first.kind = "str" THEN first
       ELSE IF IsDict(first) THEN Field(first, "path") ELSE JNull

\* lines 177-194: the path list, then the detail of its first path
CollectByPath(e, tails, out) ==
    IF "/top-buttons/paths" \in tails /\ "/top-buttons/by-path" \in tails
    THEN LET detail == _fetch_json(e, "/top-buttons/by-path")
         IN IF Truthy(SamplePath(e))
            THEN With(out, "top_buttons_by_path", IF detail.ok THEN detail.data ELSE FailMarker(detail.data))
            ELSE With(out, "top_buttons_by_path", Dict([_skip |-> Str("no path candidates")]))
    ELSE out

KnownRels == {SimpleGets[i][2] : i \in DOMAIN SimpleGets} \cup {"/top-buttons/paths", "/top-buttons/by-path"}

\* tail.strip("/").replace("/", "_") or "root", for the routes outside KnownRels
MiscKey(rel) == IF rel = "/country-share" THEN "country-share" ELSE "root"

\* lines 196-210: every other discovered route goes under misc
RECURSIVE CollectMisc(_, _, _, _)
CollectMisc(e, discovered, misc, i) ==
    IF i > Len(discovered) THEN misc
    ELSE IF discovered[i] \in KnownRels THEN CollectMisc(e, discovered, misc, i + 1)
    ELSE LET got == _fetch_json(e, discovered[i]) IN
         CollectMisc(e, discovered,
                     With(misc, MiscKey(discovered[i]), IF got.ok THEN got.data ELSE FailMarker(got.data)),
                     i + 1)

\* lines 142-210: what the collector gathers once its HTTP client is open
CollectBundle(e) ==
    LET discovered == _discover_query_endpoints(e)
        tails == {discovered[i] : i \in DOMAIN discovered}
        out0 == Dict([_meta |-> Dict([base |-> Str("/api/query"),
                                      discovered |-> JArr([i \in DOMAIN discovered |-> Str(discovered[i])])])])
        out1 == CollectByPath(e, tails, CollectSimple(e, tails, out0, 1))
        misc == CollectMisc(e, discovered, EmptyDict, 1)
    IN IF Truthy(misc) THEN With(out1, "misc", misc) ELSE out1

\* the collector with a discovery that lets its exception through
_collect_widget_data_DiscoveryRaises(e) ==
    IF ~e.client_ok \/ ~e.discovery_ok THEN Raised ELSE Returned(CollectBundle(e))

\* one GET of _fetch_json: the route, and the path parameter when one is sent (191)
GetOf(rel, path) == [rel |-> rel, path |-> path]

\* _collect_widget_data (136-212); it raises when the HTTP client cannot be built
\* the endpoints _fetch_json is called on: the simple gets that were
\* discovered (172-175), the path list and, when it names a path, the detail
\* (177-192), and every discovered route outside the known ones (197-208)
Fetched(e) ==
    LET discovered == _discover_query_endpoints(e)
        tails == {discovered[i] : i \in DOMAIN discovered}
    IN {GetOf(SimpleGets[i][2], JNull) : i \in {j \in DOMAIN SimpleGets : SimpleGets[j][2] \in tails}}
       \cup (IF "/top-buttons/paths" \in tails /\ "/top-buttons/by-path" \in tails
             THEN {GetOf("/top-buttons/paths", JNull)}
                  \cup (IF Truthy(SamplePath(e))
                        THEN {GetOf("/top-buttons/by-path", SamplePath(e))}
                        ELSE {})
             ELSE {})
       \cup {GetOf(rel, JNull) : rel \in tails \ KnownRels}

_collect_widget_data(e) ==
    IF ~e.client_ok THEN Raised ELSE Returned(CollectBundle(e))

(***************************************************************************)
(* Numbers of the deterministic engine.  Counts, seconds and exit rates    *)
(* are integers in the modelled payloads; a percentage that _safe_pct      *)
(* rounds to two decimals is carried as an integer number of hundredths.   *)
(* A float that int() cannot convert (nan, inf) is fin = FALSE.            *)
(***************************************************************************)
\* a value given a local name, as an assignment gives it to the code that follows
Bind(value, Rest(_)) == Rest(value)

\* [f(x) for x in xs]
MapSeq(xs, F(_)) == [i \in DOMAIN xs |-> F(xs[i])]

Max(a, b) == IF a >= b THEN a ELSE b

Min(a, b) == IF a <= b THEN a ELSE b

\* round(a / b) to the nearest integer, ties to even (b > 0)
RoundDiv(a, b) ==
    LET q == a \div b
        r == a % b
    IN IF 2 * r < b THEN q
       ELSE IF 2 * r > b THEN q + 1
       ELSE IF q % 2 = 0 THEN q ELSE q + 1

\* _safe_pct (73-76), in hundredths of a percent
\* the ratio left as a fraction of one
_safe_pct_Fraction(part, whole) == IF whole <= 0 THEN 0 ELSE RoundDiv(part * 100, whole)

_safe_pct(part, whole) == IF whole <= 0 THEN 0 ELSE RoundDiv(part * 10000, whole)

Finite(n) == [ok |-> TRUE, fin |-> TRUE, n |-> n]

NonFinite == [ok |-> TRUE, fin |-> FALSE, n |-> 0]

NoFloat == [ok |-> FALSE, fin |-> TRUE, n |-> 0]

\* float(text) for the unit sequence of a string: an integer literal, nan/inf, or ValueError
FloatOfText(units) ==
    IF /\ Len(units) \in {1, 2}
       /\ units[1] \in DOMAIN NumberOf
       /\ Len(units) = 2 => units[2] = ".0"
    THEN Finite(NumberOf[units[1]])
    ELSE IF Len(units) = 1 /\ units[1] \in {"nan", "inf"} THEN NonFinite
    ELSE NoFloat

\* float(value): ok = FALSE for the TypeError/ValueError it raises
FloatOf(v) ==
    CASE v.kind = "num"  -> Finite(v.num)
      [] v.kind = "bool" -> Finite(v.num)
      [] v.kind = "str"  -> FloatOfText(v.str)
      [] OTHER -> NoFloat

\* _as_float (59-63) and _as_int (66-70) with their default 0; int() of a
\* non-finite float raises inside _as_int and gives the default too.  _as_float
\* hands a nan or inf on as it is: the modelled payloads carry none in the fields
\* it reads (avg_seconds, exit_rate)
_as_float(v) == Bind(FloatOf(v), LAMBDA f : IF f.ok /\ f.fin THEN f.n ELSE 0)

_as_int(v) == Bind(FloatOf(v), LAMBDA f : IF f.ok /\ f.fin THEN f.n ELSE 0)

\* the cleaning _pick applies to a string (1084-1088): commas and one trailing % go
PickText(units) ==
    Bind(SelectSeq(units, LAMBDA u : u # ","), LAMBDA no_commas :
      Bind(IF no_commas # <<>> /\ no_commas[Len(no_commas)] = "%"
           THEN SubSeq(no_commas, 1, Len(no_commas) - 1) ELSE no_commas, LAMBDA cleaned :
        IF cleaned = <<>> THEN <<"0">> ELSE cleaned))

\* InsightGenerator._pick (1077-1093): the first key whose value float() accepts
RECURSIVE _pick(_, _)
_pick(row, keys) ==
    IF keys = <<>> THEN Finite(0)
    ELSE Bind(Field(row, Head(keys)), LAMBDA value :
           Bind(FloatOf(IF value.kind = "str" THEN JStr(PickText(value.str)) ELSE value), LAMBDA f :
             IF ~Has(row, Head(keys)) \/ value.kind = "null" \/ ~f.ok
             THEN _pick(row, Tail(keys))
             ELSE f))

\* InsightGenerator._percent (1095-1100)
_percent(v) ==
    _as_float(IF v.kind = "str" THEN JStr(SelectSeq(v.str, LAMBDA u : u # "%")) ELSE v)

\* _page_label (1102-1107) and _safe_label (1109-1114): the first non-blank string
RECURSIVE _safe_label(_, _, _)
_safe_label(row, keys, default) ==
    IF keys = <<>> THEN default
    ELSE LET value == Field(row, Head(keys)) IN
         IF value.kind = "str" /\ value.str # <<>> THEN value.str
         ELSE _safe_label(row, Tail(keys), default)

_page_label(row) == _safe_label(row, <<"path", "page", "url", "title">>, <<>>)

\* sum(xs) of a sequence of integers
RECURSIVE SumSeq(_)
SumSeq(xs) == IF xs = <<>> THEN 0 ELSE Head(xs) + SumSeq(Tail(xs))

\* sorted(xs, key=..., reverse=True) on records carrying their key in the field
\* sortkey: a stable sort, larger keys first
RECURSIVE InsertDesc(_, _)
InsertDesc(sorted, x) ==
    IF sorted = <<>> THEN <<x>>
    ELSE IF Head(sorted).sortkey >= x.sortkey THEN <<Head(sorted)>> \o InsertDesc(Tail(sorted), x)
    ELSE <<x>> \o sorted

RECURSIVE SortDesc(_)
SortDesc(xs) ==
    IF xs = <<>> THEN <<>>
    ELSE InsertDesc(SortDesc(SubSeq(xs, 1, Len(xs) - 1)), xs[Len(xs)])

(***************************************************************************)
(* InsightGenerator.__init__ (service.py 442-511).                         *)
(***************************************************************************)
ValueKeys == <<"sessions", "count", "value", "views">>

ViewKeys == <<"views", "sessions", "count", "value">>

ClickKeys == <<"count", "clicks", "value">>

ExitKeys == <<"exits", "exit_count">>

\* int(self._pick(row, keys)) raises on some row: the float is nan or inf
IntOfPickRaises(rows, keys) == \E i \in DOMAIN rows : ~_pick(rows[i], keys).fin

\* _distribution (1045-1058)
_distribution(rows, label_keys) ==
    Bind(SortDesc(SelectSeq(MapSeq(rows, LAMBDA row :
                              Bind(_pick(row, ValueKeys).n, LAMBDA value :
                                [label |-> _safe_label(row, label_keys, <<"Unknown">>),
                                 value |-> value, sortkey |-> value])),
                            LAMBDA item : item.value > 0)),
         LAMBDA items :
           Bind(SumSeq(MapSeq(items, LAMBDA item : item.value)), LAMBDA total :
             [total |-> total,
              items |-> MapSeq(items, LAMBDA item :
                          [label |-> item.label, value |-> item.value,
                           share |-> _safe_pct(item.value, IF total = 0 THEN 1 ELSE total)])]))

\* _find_distribution_item (1116-1121): the first item whose label holds the keyword;
\* found = FALSE for None
_find_distribution_item(distribution, keyword) ==
    LET hits == SelectSeq(distribution.items, LAMBDA item : \E i \in DOMAIN item.label : item.label[i] = keyword)
    IN IF hits = <<>> THEN [found |-> FALSE, share |-> 0] ELSE [found |-> TRUE, share |-> hits[1].share]

\* _top_page_summary (1060-1075)
_top_page_summary(top_pages, total_sessions) ==
    Bind(SortDesc(SelectSeq(MapSeq(top_pages, LAMBDA row :
                              Bind(_pick(row, ViewKeys).n, LAMBDA views :
                                [page |-> _page_label(row), views |-> views, sortkey |-> views])),
                            LAMBDA item : item.page # <<>> /\ item.views > 0)),
         LAMBDA pages :
           Bind(SumSeq(MapSeq(pages, LAMBDA item : item.views)), LAMBDA total_views :
             [items |-> MapSeq(Prefix(pages, 5), LAMBDA item :
                          [page |-> item.page, views |-> item.views,
                           share |-> _safe_pct(item.views,
                                               IF total_sessions # 0 THEN total_sessions
                                               ELSE IF total_views # 0 THEN total_views ELSE 1)]),
              total_views |-> total_views]))

\* d[key] = entry on an insertion-ordered dict held as a sequence of entries
RECURSIVE OrderedPut(_, _)
OrderedPut(entries, entry) ==
    IF entries = <<>> THEN <<entry>>
    ELSE IF Head(entries).key = entry.key THEN <<entry>> \o Tail(entries)
    ELSE <<Head(entries)>> \o OrderedPut(Tail(entries), entry)

RECURSIVE OrderedDict(_)
OrderedDict(entries) ==
    IF entries = <<>> THEN <<>>
    ELSE OrderedPut(OrderedDict(SubSeq(entries, 1, Len(entries) - 1)), entries[Len(entries)])

\* row.get("path") or row.get("page"), the key of dwell_map (471-475)
DwellKey(row) == Or(Field(row, "path"), Field(row, "page"))

Unhashable(v) == v.kind \in {"list", "dict"}

\* the rows of daily_count that carry a cnt (480, 500)
Counted(daily_rows) == SelectSeq(daily_rows, LAMBDA row : Field(row, "cnt").kind # "null")

\* the object __init__ leaves behind, or raised = TRUE when an exception leaves it
InsightGenerator(widget_bundle, req) ==
    Bind([device |-> _rows(Field(widget_bundle, "device_share")),
          browser |-> _rows(Field(widget_bundle, "browser_share")),
          daily |-> _rows(Field(widget_bundle, "daily_count")),
          top_pages |-> _rows(Field(widget_bundle, "top_pages")),
          exit |-> _rows(Field(widget_bundle, "page_exit_rate")),
          dwell |-> _rows(Field(widget_bundle, "dwell_time")),
          top_buttons_global |-> _rows(Field(widget_bundle, "top_buttons_global")),
          top_buttons_by_path |-> _rows(Field(widget_bundle, "top_buttons_by_path"))], LAMBDA rows :
    Bind(SelectSeq(rows.dwell, LAMBDA row : Truthy(DwellKey(row))), LAMBDA keyed_dwell :
    Bind(SelectSeq(rows.exit, LAMBDA row : _page_label(row) # <<>>), LAMBDA labelled_exits :
    IF \/ \E i \in DOMAIN keyed_dwell : Unhashable(DwellKey(keyed_dwell[i]))
       \/ IntOfPickRaises(rows.device, ValueKeys)
       \/ IntOfPickRaises(rows.browser, ValueKeys)
       \/ IntOfPickRaises(SelectSeq(rows.top_pages, LAMBDA row : _page_label(row) # <<>>), ViewKeys)
       \/ IntOfPickRaises(labelled_exits, ViewKeys)
       \/ IntOfPickRaises(labelled_exits, ExitKeys)
       \/ IntOfPickRaises(rows.top_buttons_global, ClickKeys)
    THEN [raised |-> TRUE]
    ELSE
    Bind(OrderedDict(MapSeq(keyed_dwell, LAMBDA row :
                       [key |-> DwellKey(row),
                        dwell |-> _as_float(Or(Field(row, "avg_seconds"), Field(row, "avg")))])),
         LAMBDA dwell_map :
    Bind(_distribution(rows.device, <<"device", "type", "name">>), LAMBDA device_distribution :
    Bind(MapSeq(Counted(rows.daily), LAMBDA row : _as_int(Field(row, "cnt"))), LAMBDA daily_series :
    Bind(IF device_distribution.total # 0 THEN device_distribution.total ELSE SumSeq(daily_series),
         LAMBDA total_sessions :
    Bind(SortDesc(MapSeq(SelectSeq(rows.top_buttons_global, LAMBDA row : _pick(row, ClickKeys).n > 0),
                         LAMBDA row : [row |-> row, sortkey |-> _pick(row, ClickKeys).n])),
         LAMBDA button_sorted :
    Bind(SumSeq(MapSeq(rows.top_buttons_global, LAMBDA row : _pick(row, ClickKeys).n)), LAMBDA total_clicks :
       [raised |-> FALSE,
        bundle |-> widget_bundle,
        req |-> req,
        device_rows |-> rows.device, browser_rows |-> rows.browser, daily_rows |-> rows.daily,
        exit_rows |-> rows.exit, dwell_rows |-> rows.dwell,
        top_buttons_global |-> rows.top_buttons_global, top_buttons_by_path |-> rows.top_buttons_by_path,
        heatmap_sample |-> _first_row(JArr(rows.top_buttons_by_path)),
        dwell_map |-> dwell_map,
        device_distribution |-> device_distribution,
        browser_distribution |-> _distribution(rows.browser, <<"browser", "name">>),
        total_sessions |-> total_sessions,
        top_page_summary |-> _top_page_summary(rows.top_pages, total_sessions),
        exit_index |-> OrderedDict(MapSeq(labelled_exits, LAMBDA row :
                                     [key |-> _page_label(row),
                                      exit_rate |-> _percent(Field(row, "exit_rate")),
                                      views |-> _pick(row, ViewKeys).n,
                                      exits |-> _pick(row, ExitKeys).n])),
        exit_rate_sum |-> SumSeq(MapSeq(labelled_exits, LAMBDA row : _percent(Field(row, "exit_rate")))),
        exit_rate_count |-> Len(labelled_exits),
        dwell_sum |-> SumSeq(MapSeq(dwell_map, LAMBDA entry : entry.dwell)),
        dwell_count |-> Len(dwell_map),
        daily_series |-> daily_series,
        button_leader |-> IF button_sorted = <<>> THEN JNull ELSE button_sorted[1].row,
        button_tail |-> IF Len(button_sorted) > 1 THEN button_sorted[Len(button_sorted)].row ELSE JNull,
        total_clicks |-> total_clicks,
        click_rate_pct |-> _safe_pct(total_clicks, IF total_sessions = 0 THEN 1 ELSE total_sessions)])))))))))

(***************************************************************************)
(* InsightGenerator.build and the section builders (service.py 513-1043).  *)
(* A section item keeps its fields that are not free prose.  Percentages   *)
(* are hundredths of a percent, as everywhere in the engine.               *)
(***************************************************************************)
\* f"{x:.1f}" and f"{x:.0f}" of a whole number
OneDecimal(n) == <<NumText(n), ".0">>

NoDecimal(n) == <<NumText(n)>>

\* _traffic_trend (567-604)
_traffic_trend(g) ==
    LET values == g.daily_series
        first == values[1]
        last == values[Len(values)]
        change_pct == _safe_pct(last - first, IF first = 0 THEN 1 ELSE first)
        half == Max(1, Len(values) \div 2)
        early == SumSeq(SubSeq(values, 1, half))
        late == SumSeq(SubSeq(values, Len(values) - half + 1, Len(values)))
        \* early and late are means over half values: (late - early) / early
        momentum == IF early = 0 THEN _safe_pct(late - early, half) ELSE _safe_pct(late - early, early)
        label == IF change_pct >= 600 THEN "rising" ELSE IF change_pct <= -600 THEN "falling" ELSE "flat"
        items == g.top_page_summary.items
        top_pages == [i \in DOMAIN items |->
                        Dict([page |-> JStr(items[i].page), share |-> JNum(items[i].share),
                              views |-> JNum(items[i].views)])]
    IN IF values = <<>> THEN Dict([label |-> Str("unknown")])
       ELSE Dict([label |-> Str(label), first |-> JNum(first), last |-> JNum(last),
                  change |-> JNum(last - first), change_pct |-> JNum(change_pct),
                  momentum_pct |-> JNum(momentum),
                  average |-> JNum(RoundDiv(SumSeq(values) * 100, Len(values))),
                  days |-> JNum(Len(values)), top_pages |-> JArr(top_pages),
                  top_share |-> JNum(SumSeq([i \in DOMAIN items |-> items[i].share]))])

\* heatmap_sample.get("hotspots") or heatmap_sample.get("elements") or []
HotspotsOf(sample) == Or(Or(Field(sample, "hotspots"), Field(sample, "elements")), JArr(<<>>))

\* hotspots[0].get(...) on a first hotspot that is no dict (635, 696)
FirstHotspotRaises(sample) ==
    LET hotspots == HotspotsOf(sample)
    IN IsList(hotspots) /\ hotspots.items # <<>> /\ ~IsDict(hotspots.items[1])

\* self.dwell_map.get(path, 0.0)
DwellOf(g, path) ==
    LET hits == SelectSeq(g.dwell_map, LAMBDA entry : entry.key = JStr(path))
    IN IF hits = <<>> THEN 0 ELSE hits[1].dwell

PageIssuesRaises(g) ==
    \E i \in DOMAIN g.exit_index :
        /\ Field(g.heatmap_sample, "path") = JStr(g.exit_index[i].key)
        /\ FirstHotspotRaises(g.heatmap_sample)

\* _page_issues (606-653): score = exit_rate - avg_exit_rate - (dwell - avg_dwell) * 0.25
\* orders the pages as 4 * exit_rate - dwell does, the averages being the same for all
_page_issues(g) ==
    LET issues == [i \in DOMAIN g.exit_index |->
                     LET path == g.exit_index[i].key
                         dwell == DwellOf(g, path)
                     IN [sortkey |-> 4 * g.exit_index[i].exit_rate - dwell,
                         item |-> Dict([page |-> JStr(path),
                                        dwell_time |-> JStr(IF dwell # 0 THEN NoDecimal(dwell) \o <<"s">> ELSE <<"-">>),
                                        exit_rate |-> JStr(OneDecimal(g.exit_index[i].exit_rate) \o <<"%">>),
                                        widget |-> Str("page_exit_rate|dwell_time")])]]
        worst_first == Prefix(SortDesc(issues), 4)
    IN [i \in DOMAIN worst_first |-> worst_first[i].item]

ButtonLabelKeys == <<"element_text", "text", "label", "selector", "id">>

HeatmapPath(g) == Or(Field(g.heatmap_sample, "path"), Field(g.heatmap_sample, "page"))

InteractionInsightsRaises(g) == Truthy(HeatmapPath(g)) /\ FirstHotspotRaises(g.heatmap_sample)

\* _interaction_insights (655-705)
_interaction_insights(g) ==
    LET has_leader == Truthy(g.button_leader) /\ g.total_clicks # 0
        has_tail == /\ has_leader
                    /\ Truthy(g.button_tail)
                    /\ _pick(g.button_tail, ClickKeys).n # 0
    IN (IF has_leader
        THEN <<Dict([area |-> JStr(<<"Global CTA - ">> \o _safe_label(g.button_leader, ButtonLabelKeys, <<"Primary CTA">>)),
                     widget |-> Str("top_buttons_global")])>>
        ELSE <<>>)
       \o (IF has_tail
           THEN <<Dict([area |-> JStr(<<"Under-used CTA - ">> \o _safe_label(g.button_tail, ButtonLabelKeys, <<"Secondary CTA">>)),
                        widget |-> Str("top_buttons_global")])>>
           ELSE <<>>)
       \o (IF Truthy(HeatmapPath(g))
           THEN <<Dict([area |-> Str("Heatmap"), path |-> HeatmapPath(g), widget |-> Str("top_buttons_by_path")])>>
           ELSE <<>>)

\* the last item of a non-empty sequence
Last(xs) == xs[Len(xs)]

\* _diagnostics (707-773)
_diagnostics(g, trend) ==
    LET devices == g.device_distribution.items
        browsers == g.browser_distribution.items
        label == Field(trend, "label")
    IN (IF devices # <<>>
        THEN <<Dict([focus |-> JStr(Last(devices).label \o <<" traffic">>),
                     widget |-> Str("device_share|page_exit_rate"),
                     severity |-> Str(IF Last(devices).share <= 2500 THEN "High" ELSE "Medium")])>>
        ELSE <<>>)
       \o (IF browsers # <<>>
           THEN <<Dict([focus |-> JStr(Last(browsers).label \o <<" sessions">>),
                        widget |-> Str("browser_share"),
                        severity |-> Str(IF Last(browsers).share <= 1500 THEN "Medium" ELSE "Low")])>>
           ELSE <<>>)
       \o (IF Truthy(label)
           THEN <<Dict([focus |-> Str("Traffic momentum"), widget |-> Str("daily_count|top_pages"),
                        severity |-> Str(IF label = Str("falling") THEN "High"
                                         ELSE IF label = Str("flat") THEN "Medium" ELSE "Low")])>>
           ELSE <<>>)
       \o (IF Truthy(g.button_leader) /\ Truthy(g.button_tail) /\ g.total_clicks # 0
           THEN <<Dict([focus |-> Str("CTA engagement"), widget |-> Str("top_buttons_global|top_buttons_by_path"),
                        severity |-> Str("Medium")])>>
           ELSE <<>>)

\* mobile["share"] if mobile else (items[0]["share"] if items else 0.0)   (814, 997)
MobileShare(g) ==
    LET mobile == _find_distribution_item(g.device_distribution, "mobile")
        items == g.device_distribution.items
    IN IF mobile.found THEN mobile.share ELSE IF items # <<>> THEN items[1].share ELSE 0

\* _recommendations (775-832): (ux, tech)
_recommendations(g, page_issues, interactions) ==
    [ux |-> (IF page_issues # <<>>
             THEN <<Dict([category |-> Str("Checkout clarity"), page |-> Field(page_issues[1], "page"),
                          validation |-> Str("page_exit_rate + dwell_time trends")])>>
             ELSE <<>>)
            \o (IF Truthy(HeatmapPath(g))
                THEN <<Dict([category |-> Str("Heatmap alignment"),
                             validation |-> Str("top_buttons_by_path heatmap + session replay")])>>
                ELSE <<>>)
            \o (IF Truthy(g.button_leader) /\ interactions # <<>>
                THEN <<Dict([category |-> Str("CTA hierarchy"),
                             validation |-> Str("top_buttons_global before/after comparison")])>>
                ELSE <<>>),
     tech |-> <<Dict([category |-> Str("Mobile Chrome performance"),
                      validation |-> Str("device_share + browser_share + synthetic LCP trace")]),
                Dict([category |-> Str("Landing page caching"),
                      validation |-> Str("top_pages + daily_count watchlist")])>>]

\* _priorities (834-883)
_priorities(g, page_issues, trend) ==
    LET mobile == _find_distribution_item(g.device_distribution, "mobile")
        label == Field(trend, "label")
    IN (IF page_issues # <<>>
        THEN <<Dict([title |-> JStr(<<"Reduce exits on ">> \o Field(page_issues[1], "page").str),
                     priority |-> Str("High"), effort |-> Str("Medium"),
                     expected_metric_change |->
                        Dict([metric |-> Str("page_exit_rate"),
                              baseline |-> JNum(_percent(Field(page_issues[1], "exit_rate")) * 100),
                              period |-> Str("14d")])])>>
        ELSE <<>>)
       \o (IF mobile.found \/ g.device_distribution.items # <<>>
           THEN <<Dict([title |-> Str("Stabilise mobile Chrome load time"),
                        priority |-> Str(IF MobileShare(g) >= 3000 THEN "High" ELSE "Medium"),
                        effort |-> Str("Medium"),
                        expected_metric_change |->
                           Dict([metric |-> Str("device_share"), target |-> Str("+4%p"), period |-> Str("21d")])])>>
           ELSE <<>>)
       \o (IF label \in {Str("falling"), Str("flat")}
           THEN <<Dict([title |-> Str("Re-ignite acquisition"),
                        priority |-> Str(IF label = Str("flat") THEN "Medium" ELSE "High"),
                        effort |-> Str("Medium"),
                        expected_metric_change |->
                           Dict([metric |-> Str("daily_count"), target |-> Str("+12%"), period |-> Str("21d")])])>>
           ELSE <<>>)

\* _metrics_to_track (885-932)
_metrics_to_track(page_issues) ==
    (IF page_issues # <<>>
     THEN <<Dict([metric |-> JStr(Field(page_issues[1], "page").str \o <<" exit rate">>),
                  widget |-> Str("page_exit_rate"), target_change |-> Str("-10pp"), timeframe |-> Str("14d")]),
            Dict([metric |-> JStr(Field(page_issues[1], "page").str \o <<" dwell time">>),
                  widget |-> Str("dwell_time"), target_change |-> Str("+15%"), timeframe |-> Str("14d")])>>
     ELSE <<>>)
    \o <<Dict([metric |-> Str("Mobile share stability"), widget |-> Str("device_share"), timeframe |-> Str("21d")]),
         Dict([metric |-> Str("Browser distribution health"), widget |-> Str("browser_share"), timeframe |-> Str("21d")]),
         Dict([metric |-> Str("CTA click-through"), widget |-> Str("top_buttons_global"),
               target_change |-> Str("+3pp"), timeframe |-> Str("14d")])>>

\* _predictions (934-984)
_predictions(g, page_issues, trend) ==
    LET last == Field(trend, "last")
        \* trend.get("last") or trend.get("average") or 0, the average in hundredths
        sessions == IF Truthy(last) THEN last.num * 100 ELSE Field(trend, "average").num
    IN (IF page_issues # <<>>
        THEN <<Dict([metric |-> Str("Checkout conversion rate"), unit |-> Str("%")]),
               Dict([metric |-> JStr(Field(page_issues[1], "page").str \o <<" exit rate">>),
                     baseline |-> JNum(_percent(Field(page_issues[1], "exit_rate")) * 100),
                     unit |-> Str("%")])>>
        ELSE <<>>)
       \o (IF last.kind # "null"
           THEN <<Dict([metric |-> Str("Daily sessions"),
                        \* int(round(baseline * 1.08 + 5))
                        expected |-> JNum(RoundDiv(sessions * 108 + 50000, 10000)),
                        unit |-> Str("sessions")])>>
           ELSE <<>>)
       \o (IF g.total_sessions # 0
           THEN <<Dict([metric |-> Str("CTA click share"), baseline |-> JNum(g.click_rate_pct),
                        expected |-> JNum(Min(10000, g.click_rate_pct + 350)), unit |-> Str("%")])>>
           ELSE <<>>)

\* a clamp that only keeps the score from going under 20
clamp_NoCeiling(num, den) == Max(2000, RoundDiv(num * 100, den)) \div 100

\* clamp (1001-1002) of value = num / den (den > 0): int(max(20.0, min(95.0, round(value, 2))))
clamp(num, den) == Max(2000, Min(9500, RoundDiv(num * 100, den))) \div 100

RadarAxes == <<"performance", "experience", "growth", "search", "stability">>

\* _radar_scores (986-1019)
_radar_scores(g, page_issues, trend, missing_count) ==
    LET top_exit == IF page_issues # <<>> THEN _percent(Field(page_issues[1], "exit_rate"))
                    ELSE IF g.exit_rate_count = 0 THEN 0 ELSE g.exit_rate_sum \div g.exit_rate_count
        \* avg_dwell = dwell_sum / k, 0.0 for an empty dwell_map
        k == IF g.dwell_count = 0 THEN 1 ELSE g.dwell_count
        mobile_share == MobileShare(g)
        trend_change == Field(trend, "change_pct").num
        top_share == Field(trend, "top_share").num
        pages == Len(g.top_page_summary.items)
        score == [axis \in {RadarAxes[i] : i \in DOMAIN RadarAxes} |->
                    CASE axis = "performance" ->
                           clamp(82000 - 600 * Max(0, top_exit - 45) - 4 * Max(0, 4000 - mobile_share), 1000)
                      [] axis = "experience" ->
                           clamp(2 * (60 * k + Min(18 * k, g.dwell_sum - 20 * k)) - k * Max(0, top_exit - 60), 2 * k)
                      [] axis = "growth" ->
                           clamp(55000 + 8 * trend_change - 4 * Max(0, top_share - 7000), 1000)
                      [] axis = "search" ->
                           clamp(60000 - 4 * Max(0, top_share - 7500) + Min(10000, 1500 * pages), 1000)
                      [] OTHER ->
                           clamp(72 - 8 * missing_count + Min(6, Len(g.daily_rows)), 1)]
    IN [i \in DOMAIN RadarAxes |-> Dict([axis |-> Str(RadarAxes[i]), score |-> JNum(score[RadarAxes[i]])])]

\* _summary_text (1021-1043): the sentences the summary is joined from, each
\* sentence named by what it reports
_summary_text(g, diagnostics, page_issues, trend) ==
    LET lines == (IF Truthy(Field(trend, "label")) /\ Field(trend, "label") # Str("unknown")
                  THEN <<"Traffic is ">> \o Field(trend, "label").str ELSE <<>>)
                 \o (IF diagnostics # <<>> THEN Field(diagnostics[1], "focus").str ELSE <<>>)
                 \o (IF page_issues # <<>> THEN Field(page_issues[1], "page").str \o <<" keeps users">> ELSE <<>>)
                 \o (IF g.click_rate_pct # 0 THEN <<"Global CTA click-through">> ELSE <<>>)
                 \o (IF g.req.prompt # <<>> THEN <<"Custom request ">> \o g.req.prompt ELSE <<>>)
    IN JStr(IF lines = <<>>
            THEN <<"Widget data is missing; please rerun the report after the queries respond.">>
            ELSE lines)

\* the keys of required_sources (523-531) as sorted() orders them
RequiredSources ==
    <<"browser_share", "daily_count", "device_share", "dwell_time", "page_exit_rate",
      "top_buttons_by_path", "top_buttons_global">>

\* the rows build() looks at for each required source
SourceRows(g, key) ==
    CASE key = "browser_share" -> g.browser_rows
      [] key = "daily_count" -> g.daily_rows
      [] key = "device_share" -> g.device_rows
      [] key = "dwell_time" -> g.dwell_rows
      [] key = "page_exit_rate" -> g.exit_rows
      [] key = "top_buttons_by_path" -> g.top_buttons_by_path
      [] OTHER -> g.top_buttons_global

\* every key a bundle can hold that does not start with "_", as sorted() orders them
WidgetKeys ==
    <<"browser_share", "daily_count", "device_share", "dwell_time", "misc", "page_exit_rate",
      "time_top_pages", "top_buttons_by_path", "top_buttons_global", "top_pages">>

Strs(xs) == JArr([i \in DOMAIN xs |-> Str(xs[i])])

ReportTitle == Str("AI Traffic Diagnosis & Action Report")

SectionFields ==
    <<"diagnostics", "page_issues", "interaction_insights", "ux_recommendations",
      "tech_recommendations", "priorities", "metrics_to_track", "predictions", "radar_scores">>

\* the time window read from the clock instead of the arguments
TimeOf_ReadsClock(req) == Dict([from |-> req.from_iso, to |-> req.now, bucket |-> req.bucket])

TimeOf(req) == Dict([from |-> req.from_iso, to |-> req.to_iso, bucket |-> req.bucket])

\* InsightGenerator.build (513-565) on the object g that __init__ left
build(g) ==
    IF PageIssuesRaises(g) \/ InteractionInsightsRaises(g) THEN Raised
    ELSE
    Bind(_traffic_trend(g), LAMBDA trend :
    Bind(_page_issues(g), LAMBDA page_issues :
    Bind(_interaction_insights(g), LAMBDA interactions :
    Bind(_diagnostics(g, trend), LAMBDA diagnostics :
    Bind(_recommendations(g, page_issues, interactions), LAMBDA recs :
    Bind(SelectSeq(RequiredSources, LAMBDA key : SourceRows(g, key) = <<>>), LAMBDA missing_widgets :
       Returned(Dict([generated_at |-> g.req.now,
                      title |-> ReportTitle,
                      summary |-> _summary_text(g, diagnostics, page_issues, trend),
                      diagnostics |-> JArr(diagnostics),
                      page_issues |-> JArr(page_issues),
                      interaction_insights |-> JArr(interactions),
                      ux_recommendations |-> JArr(recs.ux),
                      tech_recommendations |-> JArr(recs.tech),
                      priorities |-> JArr(_priorities(g, page_issues, trend)),
                      metrics_to_track |-> JArr(_metrics_to_track(page_issues)),
                      predictions |-> JArr(_predictions(g, page_issues, trend)),
                      radar_scores |-> JArr(_radar_scores(g, page_issues, trend, Len(missing_widgets))),
                      meta |-> Dict([mode |-> Str("deterministic"),
                                     provider |-> Str("insight-engine"),
                                     model |-> Str("deterministic-v2"),
                                     prompt |-> JStr(g.req.prompt),
                                     time |-> TimeOf(g.req),
                                     site_id |-> g.req.site_id,
                                     widgets |-> Strs(SelectSeq(WidgetKeys, LAMBDA key : Has(g.bundle, key))),
                                     missing_widgets |-> Strs(missing_widgets),
                                     trend |-> trend,
                                     focus_pages |-> JArr(MapSeq(g.top_page_summary.items,
                                                                 LAMBDA item : JStr(item.page))),
                                     button_sample_path |-> Field(g.heatmap_sample, "path")])]))))))))

(***************************************************************************)
(* generate_report (service.py 1123-1216), branch by branch.               *)
(***************************************************************************)
\* the document returned when the collector raises (1138-1152)
ErrorReport(req) ==
    Dict([generated_at |-> req.now,
          title |-> ReportTitle,
          summary |-> Str("Widget queries failed. Verify collectors and rerun the AI report."),
          diagnostics |-> JArr(<<>>), page_issues |-> JArr(<<>>), interaction_insights |-> JArr(<<>>),
          ux_recommendations |-> JArr(<<>>), tech_recommendations |-> JArr(<<>>),
          priorities |-> JArr(<<>>), metrics_to_track |-> JArr(<<>>), predictions |-> JArr(<<>>),
          radar_scores |-> JArr(<<>>),
          meta |-> Dict([mode |-> Str("error"), reason |-> Str("collector failed")])])

\* d.setdefault(key, value)
\* an assignment where the code has setdefault
SetDefault_Overwrites(d, key, value) == With(d, key, value)

SetDefault(d, key, value) == IF Has(d, key) THEN d ELSE With(d, key, value)

\* the except branch without its llm_error mark
FallbackReport_NoError(doc, error) ==
    LET d0 == SetDefault(doc, "meta", EmptyDict)
    IN With(d0, "meta", SetDefault(Field(d0, "meta"), "mode", Str("deterministic")))

\* the except branch (1209-1216): the deterministic document, marked with the error
FallbackReport(doc, error) ==
    LET d0 == SetDefault(doc, "meta", EmptyDict)
        m0 == SetDefault(Field(d0, "meta"), "mode", Str("deterministic"))
        m1 == With(m0, "llm_error", Str(error))
        m2 == SetDefault(SetDefault(m1, "provider", Str("insight-engine")), "model", Str("deterministic-v1"))
    IN With(d0, "meta", m2)

\* the loop left out: the model's sections are taken as they come
CoerceSections_Skip(data, i) == data

\* the loop of lines 1178-1190 from the i-th section field on
RECURSIVE CoerceSections(_, _)
CoerceSections(data, i) ==
    IF i > Len(SectionFields) THEN data
    ELSE CoerceSections(IF IsList(Field(data, SectionFields[i])) THEN data
                        ELSE With(data, SectionFields[i], JArr(<<>>)),
                        i + 1)

\* meta.update({...}) of lines 1195-1207
RECURSIVE Update(_, _, _)
Update(d, keys, values) ==
    IF keys = <<>> THEN d ELSE Update(With(d, Head(keys), Head(values)), Tail(keys), Tail(values))

LLM_MODEL == Str("llama3.1:8b-instruct")

\* lines 1176-1208: the model's object made into the report
LlmReport(data, doc, req, llm_provider) ==
    LET d1 == SetDefault(SetDefault(data, "generated_at", req.now), "title", Field(doc, "title"))
        d2 == SetDefault(CoerceSections(d1, 1), "summary", Field(doc, "summary"))
        d3 == IF IsDict(Field(d2, "meta")) THEN d2 ELSE With(d2, "meta", EmptyDict)
        meta == Update(Field(d3, "meta"),
                       <<"mode", "provider", "model", "prompt", "time", "site_id",
                         "widgets", "missing_widgets", "trend">>,
                       <<Str("llm"), Str(llm_provider), LLM_MODEL, JStr(req.prompt), TimeOf(req), req.site_id,
                         Field(Field(doc, "meta"), "widgets"), Field(Field(doc, "meta"), "missing_widgets"),
                         Field(Field(doc, "meta"), "trend")>>)
    IN With(d3, "meta", meta)

(***************************************************************************)
(* The model outputs the extraction is run on: the strict serialization of *)
(* a bounded JSON object, that serialization damaged the way a language    *)
(* model damages it, and every short text over the structural characters.  *)
(***************************************************************************)
MaxItems == 1

MaxCut == 2

MaxLen == 3

Keys == {<<"title">>, <<"a">>}

Leaves == {JStr(<<"x">>), JStr(<<"{">>), JStr(<<"a", "\"", "}">>), JNum(1), JNull}

SeqsUpTo(S, n) == UNION {[1..k -> S] : k \in 0..n}

FlatValues ==
    Leaves \cup {JArr(xs) : xs \in SeqsUpTo(Leaves, MaxItems)}
           \cup {JObj(m) : m \in UNION {[S -> Leaves] : S \in SUBSET {<<"b">>}}}

Objects == {JObj(m) : m \in UNION {[S -> FlatValues] : S \in SUBSET Keys}}

\* whether the unit at idx lies inside a double-quoted string of t
RECURSIVE InStringAt(_, _, _, _, _)
InStringAt(t, i, in_string, escape, idx) ==
    IF i = idx THEN in_string
    ELSE IF in_string
         THEN IF escape THEN InStringAt(t, i + 1, TRUE, FALSE, idx)
              ELSE IF t[i] = "\\" THEN InStringAt(t, i + 1, TRUE, TRUE, idx)
              ELSE IF t[i] = "\"" THEN InStringAt(t, i + 1, FALSE, FALSE, idx)
              ELSE InStringAt(t, i + 1, TRUE, FALSE, idx)
         ELSE InStringAt(t, i + 1, t[i] = "\"", FALSE, idx)

\* the closing braces and brackets of t that follow a member or an element
CloserPositions(t) ==
    {i \in 2..Len(t) : /\ t[i] \in {"}", "]"}
                       /\ ~InStringAt(t, 1, FALSE, FALSE, i)
                       /\ t[i - 1] \notin {"{", "["}}

InsertAt(t, i, u) == SubSeq(t, 1, i - 1) \o <<u>> \o SubSeq(t, i, Len(t))

\* a markdown code fence around t; the units "fence_json" and "fence" stand for the
\* runs of three backticks with and without the language tag
Fenced(t) == <<"fence_json", "\n">> \o t \o <<"\n", "fence">>

InProse(t) == <<"Here", " ", "it", " ", "is", ":", " ">> \o t \o <<" ", "Done", ".">>

\* the trailing k units of t are closing braces or brackets
EndsWithClosers(t, k) == k <= Len(t) /\ \A i \in (Len(t) - k + 1)..Len(t) : t[i] \in {"}", "]"}

Alphabet == {"{", "}", "\"", "\\", ",", ":", "[", "]", "x", "1"}

Ordinary == {"x", "1"}

\* a run of ordinary characters is one unit: no two ordinary units are adjacent
MaximalRuns(t) == \A i \in 1..(Len(t) - 1) : ~(t[i] \in Ordinary /\ t[i + 1] \in Ordinary)

RawTexts == {t \in SeqsUpTo(Alphabet, MaxLen) : MaximalRuns(t)}

\* the texts one object gives: its strict serialization t, t wrapped, and t damaged
TextsOf(o, t) ==
    {[kind |-> "strict", obj |-> o, text |-> t],
     [kind |-> "fenced", obj |-> o, text |-> Fenced(t)],
     [kind |-> "prose", obj |-> o, text |-> InProse(t)]}
    \cup {[kind |-> "fenced_comma", obj |-> o, text |-> Fenced(InsertAt(t, i, ","))]
            : i \in CloserPositions(t)}
    \cup {[kind |-> "truncated", obj |-> o, text |-> SubSeq(t, 1, Len(t) - k)]
            : k \in {c \in 1..MaxCut : EndsWithClosers(t, c)}}
    \cup {[kind |-> "unterminated", obj |-> o, text |-> SubSeq(t, 1, p)]
            : p \in {q \in 1..(Len(t) - 1) : InStringAt(t, 1, FALSE, FALSE, q + 1)}}

NotCalled == [raised |-> FALSE, val |-> JNull]

NoReply == [kind |-> "none yet", error |-> ""]

(***************************************************************************)
(* The digest cache of ai_insights (service.py 33-47) and build_digest     *)
(* (230-276), called from request threads: get_aggregate is a plain def,   *)
(* which the framework runs in a thread pool. One cache key is followed.   *)
(***************************************************************************)
\* _TTL (34): AI_INSIGHTS_CACHE_TTL, 60 seconds when the variable is not set
TTL == 60

MaxThreads == 2

MaxCalls == 4

MaxTicks == 3

Threads == 1..MaxThreads

\* a thread that is in no call of build_digest: v is what _cache.get gave it,
\* digest the digest it holds, queried whether it has sent the store queries
Idle == [pc |-> "idle", v |-> <<>>, digest |-> <<>>, queried |-> FALSE]

(***************************************************************************)
(* visitors_stat/service.py: days are counted from 0, a cached or queried  *)
(* statistic is the version of the store's data it was computed from (0    *)
(* stands for None), and the route is a plain def, so calls run in threads *)
(***************************************************************************)
MaxDay == 2

MaxVersion == 2

MaxStatCalls == 3

StatThreads == 1..2

\* the module after import on day 1: _CACHE = {} (19), no call in progress;
\* seen is what _CACHE held for the day when the thread's call began
VisitorsStart ==
    [today |-> 1, version |-> 1, begun |-> 0,
     cache |-> [d \in 0..MaxDay |-> 0],
     thr |-> [t \in StatThreads |->
                [pc |-> "idle", date |-> 0, today |-> 0, stats |-> 0, queried |-> FALSE, seen |-> 0]]]

(***************************************************************************)
(* dynamic/service.py: the widget store behind _STORE_LOCK, a              *)
(* threading.Lock, which is not reentrant. The routes are plain defs.      *)
(***************************************************************************)
MaxStoreCalls == 3

StoreThreads == 1..2

\* the module after import (34-36): the lock free (holder 0), _WIDGETS empty, _LOADED False
WidgetsStart ==
    [loaded |-> FALSE, holder |-> 0, count |-> 0, begun |-> 0,
     thr |-> [t \in StoreThreads |-> [op |-> "none", pc |-> "idle"]]]

\* no model client has been called
NoCall == [module |-> "ai_report", client |-> "none", endpoint |-> FALSE, docker |-> FALSE,
           api_key |-> FALSE, sent |-> <<>>, last_err |-> 0, outcome |-> "pending"]

\* the services beside the report pipeline and the digest cache are at rest
ServicesInit ==
    /\ llm = NoCall
    /\ visitors = VisitorsStart
    /\ widgets = WidgetsStart

\* the module after import: _cache = {} (33)
DigestInit ==
    /\ cache = <<>>
    /\ clock = 0
    /\ thr = [t \in Threads |-> Idle]
    /\ stored = {}
    /\ requests = 0

NoRequest == [prompt |-> <<>>, from_iso |-> JNull, to_iso |-> JNull, bucket |-> JNull,
              site_id |-> JNull, now |-> JNull]

\* _extract_json called on its own: the pipeline stands still
ExtractInit ==
    /\ \/ \E o \in Objects : \E inp \in TextsOf(o, dumps(o)) :
             /\ text = inp.text
             /\ origin = [kind |-> inp.kind, obj |-> inp.obj]
       \/ \E t \in RawTexts :
             /\ text = t
             /\ origin = [kind |-> "raw", obj |-> JNull]
    /\ extracted = NotCalled
    /\ pc = "call"
    /\ env = [client_ok |-> TRUE, discovery_ok |-> TRUE, surface |-> GoodSurface]
    /\ provider = "none"
    /\ request = NoRequest
    /\ bundle = JNull
    /\ deterministic = JNull
    /\ reply = NoReply
    /\ report = NotCalled
    /\ calls = 0
    /\ fetched = {}
    /\ collects = 0
    /\ served = <<>>
    /\ DigestInit
    /\ ServicesInit

\* one call of _extract_json(content) (1173)
ExtractJson ==
    /\ pc = "call"
    /\ extracted' = _extract_json(text)
    /\ pc' = "extracted"
    /\ UNCHANGED <<text, origin, digests, services>>
    /\ UNCHANGED pipeline

ExtractNext == ExtractJson

ExtractSpec == ExtractInit /\ [][ExtractNext]_vars

(***************************************************************************)
(* generate_report as a state machine: one request from the call to the    *)
(* return, against one widget surface, one provider and one model reply.   *)
(***************************************************************************)
Providers == {"none", "None", "ollama", "openai_compat"}

\* LLM_PROVIDER.lower()
Lower(p) == IF p = "None" THEN "none" ELSE p

Prompts == {<<"focus on mobile">>}

Requests ==
    {[prompt |-> p, from_iso |-> Str("t0"), to_iso |-> Str("t1"), bucket |-> Str("1d"),
      site_id |-> JNull, now |-> Str("now")] : p \in Prompts}

GoodRadar == [i \in DOMAIN RadarAxes |-> Dict([axis |-> Str(RadarAxes[i]), score |-> JNum(58)])]

\* objects a model answers with: a full report, a partial one, one with sections
\* and meta of the wrong type and a radar off the canonical axes, and the empty one
ReplyObjects ==
    {Dict([title |-> Str("x"), summary |-> Str("x"), radar_scores |-> JArr(GoodRadar),
           diagnostics |-> JArr(<<Dict([focus |-> Str("x")])>>)]),
     Dict([title |-> Str("x")]),
     Dict([diagnostics |-> Str("x"), meta |-> Str("x"),
           radar_scores |-> JArr(<<Dict([axis |-> Str("speed"), score |-> JNum(130)])>>)]),
     EmptyDict}

\* what the model sends back as content: strict JSON, JSON in a fence with a
\* trailing comma, JSON of another shape, and no JSON
ReplyTexts ==
    {dumps(o) : o \in ReplyObjects}
    \cup {Fenced(<<"{", "\"", "title", "\"", ":", " ", "\"", "x", "\"", ",", "}">>),
          <<"[", "1", "]">>, <<"1">>, <<"x">>}

\* _call_ollama_resilient (248-276) returns a non-blank string or raises;
\* _call_openai_compatible (226-245) returns the content field, None included, or raises
Replies(p) ==
    {[kind |-> "raises", error |-> "Ollama call failed", text |-> <<>>]}
    \cup {[kind |-> "text", error |-> "", text |-> t] : t \in ReplyTexts}
    \cup (IF p = "openai_compat"
          THEN {[kind |-> "null", error |-> "NoneType", text |-> <<>>],
                [kind |-> "text", error |-> "", text |-> <<>>]}
          ELSE {})

Init ==
    /\ env \in Environments
    /\ provider \in Providers
    /\ request \in Requests
    /\ pc = "collect"
    /\ bundle = JNull
    /\ deterministic = JNull
    /\ reply = NoReply
    /\ report = NotCalled
    /\ calls = 0
    /\ fetched = {}
    /\ collects = 0
    /\ served = <<>>
    /\ DigestInit
    /\ ServicesInit
    /\ text = <<>>
    /\ origin = [kind |-> "reply", obj |-> JNull]
    /\ extracted = NotCalled

\* lines 1134-1152: the collector runs; if it raises, the error document is returned
Collect ==
    /\ pc = "collect"
    /\ LET got == _collect_widget_data(env) IN
         IF got.raised
         THEN /\ report' = Returned(ErrorReport(request))
              /\ pc' = "done"
              /\ UNCHANGED <<bundle, fetched>>
         ELSE /\ bundle' = got.val
              /\ fetched' = Fetched(env)
              /\ pc' = "build"
              /\ UNCHANGED report
    /\ collects' = collects + 1
    /\ UNCHANGED <<text, origin, extracted, env, provider, request, deterministic, reply, calls, served, digests, services>>

\* lines 1154-1165: the generator is built and run outside any try, and its
\* document is the report when the provider is none
\* an engine that drops the collector's bookkeeping from the bundle it is handed
Build_TrimsBundle ==
    /\ pc = "build"
    /\ bundle' = With(bundle, "_meta", JNull)
    /\ \E g \in {InsightGenerator(bundle, request)} :
       \E built \in {IF g.raised THEN Raised ELSE build(g)} :
          IF built.raised
          THEN /\ report' = Raised
               /\ pc' = "done"
               /\ UNCHANGED deterministic
          ELSE /\ deterministic' = built.val
               /\ IF Lower(provider) = "none"
                  THEN report' = built /\ pc' = "done"
                  ELSE pc' = "model" /\ UNCHANGED report
    /\ UNCHANGED <<text, origin, extracted, env, provider, request, reply, calls, fetched, collects, served, digests, services>>

Build ==
    /\ pc = "build"
    /\ \E g \in {InsightGenerator(bundle, request)} :
       \E built \in {IF g.raised THEN Raised ELSE build(g)} :
          IF built.raised
          THEN /\ report' = Raised
               /\ pc' = "done"
               /\ UNCHANGED deterministic
          ELSE /\ deterministic' = built.val
               /\ IF Lower(provider) = "none"
                  THEN report' = built /\ pc' = "done"
                  ELSE pc' = "model" /\ UNCHANGED report
    /\ UNCHANGED <<text, origin, extracted, env, provider, request, bundle, reply, calls, fetched, collects, served, digests, services>>

\* lines 1167-1172: the model client is called; an exception of the client, or
\* of _extract_json on a content that is no string, goes to the except branch
CallModel ==
    /\ pc = "model"
    /\ \E r \in Replies(provider) :
         /\ reply' = [kind |-> r.kind, error |-> r.error]
         /\ IF r.kind = "text"
            THEN /\ text' = r.text
                 /\ pc' = "call"
                 /\ UNCHANGED report
            ELSE /\ report' = Returned(FallbackReport(deterministic, r.error))
                 /\ pc' = "done"
                 /\ UNCHANGED text
    /\ calls' = calls + 1
    /\ UNCHANGED <<origin, extracted, env, provider, request, bundle, deterministic, fetched, collects, served, digests, services>>

\* lines 1174-1216: the extracted data becomes the report, or the except branch
\* returns the deterministic document
Merge ==
    /\ pc = "extracted"
    /\ origin.kind = "reply"
    /\ report' = IF extracted.raised
                 THEN Returned(FallbackReport(deterministic, "extraction raised"))
                 ELSE IF ~IsDict(extracted.val) \/ ~Truthy(extracted.val)
                 THEN Returned(FallbackReport(deterministic, "LLM returned invalid JSON"))
                 ELSE Returned(LlmReport(extracted.val, deterministic, request, provider))
    /\ pc' = "done"
    /\ UNCHANGED <<text, origin, extracted, env, provider, request, bundle, deterministic, reply, calls, fetched, collects, served, digests, services>>

\* post_ai_report (router.py 13-20) is called once more with the same from, to,
\* bucket and site_id right after a request has returned: generate_report
\* starts over, with nothing kept from the request before
PostAgain ==
    /\ pc = "done"
    /\ ~report.raised
    /\ served = <<>>
    /\ served' = Append(served, report.val)
    /\ pc' = "collect"
    /\ bundle' = JNull
    /\ deterministic' = JNull
    /\ reply' = NoReply
    /\ report' = NotCalled
    /\ extracted' = NotCalled
    /\ text' = <<>>
    /\ calls' = 0
    /\ fetched' = {}
    /\ UNCHANGED <<origin, env, provider, request, collects, digests, services>>

Next ==
    \/ Collect
    \/ Build
    \/ CallModel
    \/ ExtractJson
    \/ Merge

Spec == Init /\ [][Next]_vars

\* the pipeline when a request may be repeated
RepeatNext == Next \/ PostAgain

RepeatSpec == Init /\ [][RepeatNext]_vars

(***************************************************************************)
(* Properties of generate_report, read at the return of the call.          *)
(***************************************************************************)
Returns == pc = "done" /\ ~report.raised

MetaOf(doc) == Field(doc, "meta")

ModeOf(doc) == Field(MetaOf(doc), "mode")

MissingWidgets(doc) ==
    LET listed == Field(MetaOf(doc), "missing_widgets")
    IN IF IsList(listed) THEN {listed.items[i] : i \in DOMAIN listed.items} ELSE {}

\* the model path failed: the client raised or gave no string, or no non-empty
\* object came out of its content
ModelPathFailed ==
    /\ pc = "done"
    /\ \/ reply.kind \in {"raises", "null"}
       \/ /\ reply.kind = "text"
          /\ extracted.raised \/ ~IsDict(extracted.val) \/ ~Truthy(extracted.val)

\* C1: generate_report never raises, and the report it returns carries a
\* meta.mode among llm, deterministic, fallback and error, whatever the widget
\* endpoints answered and whatever the model client did.
C1_NeverRaises ==
    pc = "done" =>
        /\ ~report.raised
        /\ ModeOf(report.val) \in {Str("llm"), Str("deterministic"), Str("fallback"), Str("error")}

\* C2: when the model path fails, the report has mode deterministic (or
\* fallback), a populated meta.llm_error, and the title, summary and sections
\* that the deterministic engine computed.
C2_ModelFailureFallsBack ==
    ModelPathFailed =>
        /\ ~report.raised
        /\ ModeOf(report.val) \in {Str("deterministic"), Str("fallback")}
        /\ Truthy(Field(MetaOf(report.val), "llm_error"))
        /\ \A i \in DOMAIN SectionFields :
              Field(report.val, SectionFields[i]) = Field(deterministic, SectionFields[i])
        /\ Field(report.val, "summary") = Field(deterministic, "summary")
        /\ Field(report.val, "title") = Field(deterministic, "title")

\* the model client raised and the deterministic report came back marked with the error
C2_Witness ==
    /\ pc = "done"
    /\ reply.kind = "raises"
    /\ ~report.raised
    /\ ModeOf(report.val) = Str("deterministic")
    /\ Has(MetaOf(report.val), "llm_error")
    /\ Field(report.val, "page_issues").items # <<>>

\* C3: with the provider disabled, a required widget whose bundle entry is a
\* _fail marker is listed in meta.missing_widgets of a report of mode deterministic.
C3_FailedWidgetListedMissing ==
    (pc = "done" /\ Lower(provider) = "none") =>
        \A i \in DOMAIN RequiredSources :
            Has(Field(bundle, RequiredSources[i]), "_fail") =>
                /\ ~report.raised
                /\ ModeOf(report.val) = Str("deterministic")
                /\ Str(RequiredSources[i]) \in MissingWidgets(report.val)

\* radar_scores holds the five canonical axes, each once, in canonical order,
\* each with an integer score in 0..100
RadarCanonical(doc) ==
    LET radar == Field(doc, "radar_scores")
    IN /\ IsList(radar)
       /\ Len(radar.items) = Len(RadarAxes)
       /\ \A i \in DOMAIN RadarAxes :
             /\ Field(radar.items[i], "axis") = Str(RadarAxes[i])
             /\ Field(radar.items[i], "score").kind = "num"
             /\ Field(radar.items[i], "score").num \in 0..100

\* C4: every report generate_report returns, in any mode and whatever radar the
\* model produced, has radar_scores of exactly the five canonical axes in
\* canonical order, each with an integer score in [0,100].
C4_RadarAlwaysCanonical == Returns => RadarCanonical(report.val)

\* C5: in every report returned, each of the nine section fields is present
\* and is a list; a field the model omitted or gave with a non-list shape is
\* the empty list.
C5_SectionsAreLists ==
    Returns =>
        \A i \in DOMAIN SectionFields :
            /\ Has(report.val, SectionFields[i])
            /\ IsList(Field(report.val, SectionFields[i]))
            /\ (ModeOf(report.val) = Str("llm") /\ ~IsList(Field(extracted.val, SectionFields[i])))
                  => Field(report.val, SectionFields[i]) = JArr(<<>>)

\* a report of mode llm whose model gave diagnostics as a string and omitted page_issues
C5_Witness ==
    /\ Returns
    /\ ModeOf(report.val) = Str("llm")
    /\ Field(extracted.val, "diagnostics").kind = "str"
    /\ ~Has(extracted.val, "page_issues")
    /\ Field(report.val, "diagnostics") = JArr(<<>>)
    /\ Field(report.val, "page_issues") = JArr(<<>>)

IsErrorReport == Returns /\ ModeOf(report.val) = Str("error")

Extracted == pc = "extracted"

\* C7: for a fenced JSON object with a trailing comma before a closing brace
\* or bracket, _extract_json returns the intended object.
C7_FencedTrailingCommaRepaired ==
    (Extracted /\ origin.kind = "fenced_comma") =>
        (~extracted.raised /\ extracted.val = origin.obj)

\* C8: for a JSON object truncated before its trailing closers, all strings
\* terminated, _extract_json returns the intended object.
C8_TruncatedObjectBalanced ==
    (Extracted /\ origin.kind = "truncated") =>
        (~extracted.raised /\ extracted.val = origin.obj)

NoBrace(t) == \A i \in DOMAIN t : t[i] # "{"

\* C9: for a text with no opening brace at all, or an object cut inside a
\* string literal, _extract_json returns the empty result and does not raise.
C9_IrrecoverableGivesEmpty ==
    (Extracted /\ (NoBrace(text) \/ origin.kind = "unterminated")) =>
        (~extracted.raised /\ extracted.val = EmptyDict)

\* C10: for every JSON object o, _extract_json of the strict serialization of o
\* returns an object equal to o.
C10_RoundTrip ==
    (Extracted /\ origin.kind = "strict") =>
        (~extracted.raised /\ extracted.val = origin.obj)

\* the round trip of an object holding a string with a quote and a closing brace in it
C10_Witness ==
    /\ Extracted
    /\ origin.kind = "strict"
    /\ Has(origin.obj, "title")
    /\ Field(origin.obj, "title") = JStr(<<"a", "\"", "}">>)
    /\ extracted.val = origin.obj

\* C11: for every input text, what _extract_json returns is a JSON object
\* (the empty object included): a text that parses to a list of objects gives
\* the first of them, and a text that is valid JSON of another shape (list,
\* string, number, boolean, null) never gives a value that is no object.
C11_ObjectOrEmpty ==
    Extracted =>
        LET whole == loads(text) IN
        /\ ~extracted.raised
        /\ IsDict(extracted.val)
        /\ (/\ whole.ok
            /\ IsList(whole.val)
            /\ whole.val.items # <<>>
            /\ \A i \in DOMAIN whole.val.items : IsDict(whole.val.items[i]))
              => extracted.val = whole.val.items[1]

\* C12: when the extraction of the first model output gives the empty result,
\* generate_report invokes the model client once more before it falls back to
\* the deterministic document, and it never invokes the client more than twice.
C12_RetryOnceForValidity ==
    /\ calls <= 2
    /\ (pc = "done" /\ reply.kind = "text" /\ ~extracted.raised /\ extracted.val = EmptyDict)
          => calls = 2

\* the same request made again when _now_iso() (55-56) reads a later second
LaterRun(req) == [req EXCEPT !.now = Str("later")]

\* InsightGenerator(bundle, ...).build() run once more on the bundle of this request
SecondBuild == Bind(InsightGenerator(bundle, LaterRun(request)),
                    LAMBDA g : IF g.raised THEN Raised ELSE build(g))

FinalizedAgain == LlmReport(report.val, deterministic, LaterRun(request), provider)

\* C15: the finalization of the model's object (generated_at, title and
\* summary defaulted, the nine section fields coerced to lists, meta stamped)
\* is idempotent: applied to a report it produced, it returns that report.
C15_FinalizeIdempotent ==
    (Returns /\ ModeOf(report.val) = Str("llm")) => FinalizedAgain = report.val

\* a report finalized from an object that had no generated_at, no summary, a
\* section that was no list and a meta that was no object
C15_Witness ==
    /\ Returns
    /\ ModeOf(report.val) = Str("llm")
    /\ ~Has(extracted.val, "generated_at")
    /\ ~Has(extracted.val, "summary")
    /\ Field(extracted.val, "diagnostics") = Str("x")
    /\ Field(extracted.val, "meta") = Str("x")
    /\ Field(report.val, "generated_at") # LaterRun(request).now

(***************************************************************************)
(* The engine run on bundles that hold the daily-count widget alone: the   *)
(* collector found no other endpoint, and the series is any short sequence *)
(* of daily counts around the thresholds of _traffic_trend.                *)
(***************************************************************************)
MaxDays == 4

DayCounts == {0, 94, 100, 106, 130}

\* what _collect_widget_data returns when /daily-count is the only route
DailyBundle(series) ==
    Dict([_meta |-> Dict([base |-> Str("/api/query"), discovered |-> JArr(<<Str("/daily-count")>>)]),
          daily_count |-> Rows([i \in DOMAIN series |-> Dict([date |-> Str("d"), cnt |-> JNum(series[i])])])])

TrendInit ==
    /\ \E series \in SeqsUpTo(DayCounts, MaxDays) : bundle = DailyBundle(series)
    /\ pc = "build"
    /\ env = [client_ok |-> TRUE, discovery_ok |-> TRUE, surface |-> GoodSurface]
    /\ provider \in {"none", "None"}
    /\ request \in Requests
    /\ deterministic = JNull
    /\ reply = NoReply
    /\ report = NotCalled
    /\ calls = 0
    /\ fetched = {GetOf("/daily-count", JNull)}
    /\ collects = 1
    /\ served = <<>>
    /\ DigestInit
    /\ ServicesInit
    /\ text = <<>>
    /\ origin = [kind |-> "reply", obj |-> JNull]
    /\ extracted = NotCalled

TrendNext == Build

TrendSpec == TrendInit /\ [][TrendNext]_vars

\* the counts of the bundle's daily rows, and the trend the report carries
DailyCounts == MapSeq(Field(Field(bundle, "daily_count"), "rows").items, LAMBDA row : Field(row, "cnt").num)

TrendOf == Field(MetaOf(report.val), "trend")

\* C16: for a non-empty daily series change_pct is the percent change from the
\* first to the last value (to the hundredth of a percent, percentages being
\* counted in hundredths), the label is rising from +6 percent on, falling from
\* -6 percent down and flat in between; the series 100, 100, 100, 130 gives
\* rising with 30 percent; an empty series gives the label unknown.
C16_TrafficTrend ==
    Returns =>
        LET values == DailyCounts
            first == values[1]
            last == values[Len(values)]
            pct == Field(TrendOf, "change_pct").num
            off == pct * first - (last - first) * 10000
        IN IF values = <<>> THEN Field(TrendOf, "label") = Str("unknown")
           ELSE /\ first > 0 => (2 * off <= first /\ -2 * off <= first)
                /\ Field(TrendOf, "label") = Str(IF pct >= 600 THEN "rising"
                                                 ELSE IF pct <= -600 THEN "falling" ELSE "flat")
                /\ values = <<100, 100, 100, 130>>
                      => (Field(TrendOf, "label") = Str("rising") /\ pct = 3000)

\* the engine has returned the trend of the series 100, 100, 100, 130
C16_Witness ==
    /\ Returns
    /\ DailyCounts = <<100, 100, 100, 130>>
    /\ Field(TrendOf, "label") = Str("rising")

\* C17: a request with the from, to, bucket and site_id of an earlier request
\* that returned less than the time to live ago is answered with the document
\* of that request, and the widget collector is not invoked for it.
C17_RepeatServedFromCache ==
    served # <<>> =>
        /\ collects <= 1
        /\ Returns => report.val = served[1]

(***************************************************************************)
(* build_digest as the steps of a request thread. Each step is one access  *)
(* to the shared dict, which the interpreter runs without interruption;    *)
(* between two steps any other thread may run.                             *)
(***************************************************************************)
\* a pair whose second half has not been written
Entry_TimestampOnly(ts, data) == <<ts>>

\* the pair _cache_set stores (47)
Entry(ts, data) == <<ts, data>>

\* the generate_report pipeline stands still
PipelineIdle ==
    /\ pc = "done"
    /\ text = <<>>
    /\ origin = [kind |-> "reply", obj |-> JNull]
    /\ extracted = NotCalled
    /\ env = [client_ok |-> TRUE, discovery_ok |-> TRUE, surface |-> GoodSurface]
    /\ provider = "none"
    /\ request = NoRequest
    /\ bundle = JNull
    /\ deterministic = JNull
    /\ reply = NoReply
    /\ report = NotCalled
    /\ calls = 0
    /\ fetched = {}
    /\ collects = 0
    /\ served = <<>>

\* get_aggregate (router.py 10-21) calls build_digest in thread t (230-237)
Call(t) ==
    /\ thr[t].pc \in {"idle", "hit", "returned", "raised"}
    /\ requests < MaxCalls
    /\ requests' = requests + 1
    /\ thr' = [thr EXCEPT ![t] = [Idle EXCEPT !.pc = "get"]]
    /\ UNCHANGED <<cache, clock, stored>>
    /\ UNCHANGED <<text, origin, extracted, pc, pipeline, services>>

\* _cache_get (36-44) up to its decision: v = _cache.get(key), None when there
\* is no entry, the data when time.time() - ts is at most _TTL, else on to the pop
CacheGet(t) ==
    /\ thr[t].pc = "get"
    /\ thr' = [thr EXCEPT ![t] =
                 IF cache = <<>> THEN [@ EXCEPT !.pc = "query", !.v = cache]
                 ELSE IF clock - cache[1] > TTL THEN [@ EXCEPT !.pc = "pop", !.v = cache]
                 ELSE [@ EXCEPT !.pc = "hit", !.v = cache, !.digest = cache[2]]]
    /\ UNCHANGED <<cache, clock, stored, requests>>
    /\ UNCHANGED <<text, origin, extracted, pc, pipeline, services>>

\* _cache.pop(key, None) (41): whatever is under the key now is removed
CachePop(t) ==
    /\ thr[t].pc = "pop"
    /\ cache' = <<>>
    /\ thr' = [thr EXCEPT ![t].pc = "query"]
    /\ UNCHANGED <<clock, stored, requests>>
    /\ UNCHANGED <<text, origin, extracted, pc, pipeline, services>>

\* lines 243-272: the five store queries answer and the digest is assembled
Query(t) ==
    /\ thr[t].pc = "query"
    /\ thr' = [thr EXCEPT ![t] = [@ EXCEPT !.pc = "set", !.queried = TRUE, !.digest = <<"digest", clock>>]]
    /\ UNCHANGED <<cache, clock, stored, requests>>
    /\ UNCHANGED <<text, origin, extracted, pc, pipeline, services>>

\* lines 243-254: a store query raises and build_digest raises with it
QueryRaises(t) ==
    /\ thr[t].pc = "query"
    /\ thr' = [thr EXCEPT ![t] = [@ EXCEPT !.pc = "raised", !.queried = TRUE]]
    /\ UNCHANGED <<cache, clock, stored, requests>>
    /\ UNCHANGED <<text, origin, extracted, pc, pipeline, services>>

\* _cache_set (46-47) and the return (274-275)
CacheSet(t) ==
    /\ thr[t].pc = "set"
    /\ cache' = Entry(clock, thr[t].digest)
    /\ stored' = stored \cup {clock}
    /\ thr' = [thr EXCEPT ![t].pc = "returned"]
    /\ UNCHANGED <<clock, requests>>
    /\ UNCHANGED <<text, origin, extracted, pc, pipeline, services>>

\* time passes, half a time to live at once
Tick ==
    /\ clock < MaxTicks * (TTL \div 2)
    /\ clock' = clock + TTL \div 2
    /\ UNCHANGED <<cache, thr, stored, requests>>
    /\ UNCHANGED <<text, origin, extracted, pc, pipeline, services>>

DigestNext ==
    \/ \E t \in Threads :
          \/ Call(t)
          \/ CacheGet(t)
          \/ CachePop(t)
          \/ Query(t)
          \/ QueryRaises(t)
          \/ CacheSet(t)
    \/ Tick

\* the service after import, before the first request
DigestStart == PipelineIdle /\ DigestInit /\ ServicesInit

DigestSpec == DigestStart /\ [][DigestNext]_vars

\* an entry was stored at most _TTL seconds ago
StoredFresh == \E s \in stored : clock - s <= TTL

\* C18: build_digest returns a cached digest, without sending the store
\* queries, exactly when an entry for the key was stored at most _TTL seconds
\* earlier; an entry older than that is not returned and is removed before the
\* digest is computed again, and the entry stored afterwards is a new pair.
C18_CacheFreshness ==
    [][\A t \in Threads :
          (thr[t].pc = "get" /\ thr'[t].pc # "get") =>
              /\ thr'[t].pc = "hit" <=> StoredFresh
              /\ thr'[t].pc = "hit" => (~thr'[t].queried /\ clock - thr'[t].v[1] <= TTL)
              /\ thr'[t].pc = "pop" => clock - cache[1] > TTL]_vars

\* a pair of a timestamp and an assembled digest
Complete(entry) == Len(entry) = 2 /\ entry[2] # <<>>

\* every thread's latest call of build_digest has returned a digest
AllReturned == \A t \in Threads : thr[t].pc \in {"hit", "returned"}

\* C19: however the requests for one key interleave, every request either
\* computes the digest itself or returns the data of a complete entry; what
\* _cache.get hands a request and what the cache holds is never a partly
\* written pair; and once every request has returned, the cache holds one
\* complete pair of a timestamp and a digest.
C19_ConcurrentRequests ==
    /\ cache # <<>> => Complete(cache)
    /\ \A t \in Threads :
          /\ thr[t].v # <<>> => Complete(thr[t].v)
          /\ thr[t].pc = "hit" => (~thr[t].queried /\ thr[t].digest = thr[t].v[2])
          /\ thr[t].pc = "returned" => (thr[t].queried /\ thr[t].digest # <<>>)
    /\ AllReturned => Complete(cache)

\* two requests found the cache empty, both computed, both stored and returned
C19_Witness ==
    /\ requests = 2
    /\ \A t \in Threads : thr[t].pc = "returned" /\ thr[t].v = <<>> /\ thr[t].queried
    /\ Complete(cache)

\* the bundle holds under key what the endpoint rel answered: its payload
\* (cut to size for the simple gets) or the failure marker with error and url
Recorded(key, rel) ==
    LET got == _fetch_json(env, rel) IN
    IF got.ok THEN Field(bundle, key) \in {got.data, _shrink(got.data)}
    ELSE /\ Field(bundle, key) = FailMarker(got.data)
         /\ Has(got.data, "error") /\ Has(got.data, "url")

Discovered == {_discover_query_endpoints(env)[i] : i \in DOMAIN _discover_query_endpoints(env)}

\* a GET has been sent to the route rel
Sent(rel) == \E g \in fetched : g.rel = rel

\* C20: once _collect_widget_data has returned, every discovered known widget
\* endpoint has been fetched and the bundle holds, under that widget's key,
\* its payload or {_fail: {error, url}}, whatever the other endpoints did.
C20_FailuresIsolated ==
    IsDict(bundle) =>
        /\ \A i \in DOMAIN SimpleGets :
              SimpleGets[i][2] \in Discovered
                 => (Sent(SimpleGets[i][2]) /\ Recorded(SimpleGets[i][1], SimpleGets[i][2]))
        /\ "/top-buttons/by-path" \in Discovered
              => /\ Sent("/top-buttons/by-path")
                 /\ Recorded("top_buttons_by_path", "/top-buttons/by-path")

(***************************************************************************)
(* The two model clients, as ai_report/service.py (226-276) and            *)
(* ai_insights/explain_service.py (287-346) each define them. A call is    *)
(* followed request by request; what the backend answers to a request is   *)
(* chosen when the request is sent.                                        *)
(***************************************************************************)
Modules == {"ai_report", "ai_insights"}

\* what a POST comes to: an exception (no connection, timeout, non-2xx), a 2xx
\* body without message.content, a 2xx body whose content is "", and a 2xx
\* body with a text as content
Answers == {"error", "malformed", "empty", "text"}

\* the candidate base addresses in the order the loop visits them (249-252;
\* explain_service.py 308-313 adds the in-container address only in a container)
candidates(l) ==
    (IF l.endpoint THEN <<"configured">> ELSE <<>>)
    \o (IF l.module = "ai_report" \/ l.docker THEN <<"http://ollama:11434">> ELSE <<>>)
    \o <<"http://localhost:11434">>

\* the requests of the two nested loops, in order: per base, format=json first
Attempts(l) ==
    [i \in 1..(2 * Len(candidates(l))) |-> [base |-> candidates(l)[(i + 1) \div 2], use_json |-> i % 2 = 1]]

\* the answer makes the function return: a non-blank string content (270-271);
\* explain_service.py returns data["message"]["content"] whatever it is (335)
ReturnsOn(l, answer) ==
    IF l.module = "ai_report" THEN answer = "text" ELSE answer \in {"text", "empty"}

\* the answer ends in the except clause (272-274; explain_service.py 336-339,
\* where a body without message.content raises on the subscript)
RaisesOn(l, answer) ==
    IF l.module = "ai_report" THEN answer = "error" ELSE answer \in {"error", "malformed"}

ClientInit ==
    /\ PipelineIdle
    /\ DigestInit
    /\ \E m \in Modules, c \in {"ollama", "openai_compat"}, ep \in BOOLEAN, d \in BOOLEAN, k \in BOOLEAN :
          llm = [NoCall EXCEPT !.module = m, !.client = c, !.endpoint = ep, !.docker = d, !.api_key = k]
    /\ visitors = VisitorsStart
    /\ widgets = WidgetsStart

\* one pass of the inner loop of _call_ollama_resilient: one POST to /api/chat
OllamaPost ==
    /\ llm.client = "ollama"
    /\ llm.outcome = "pending"
    /\ Len(llm.sent) < Len(Attempts(llm))
    /\ \E answer \in Answers :
          llm' = [llm EXCEPT
                    !.sent = Append(@, [base |-> Attempts(llm)[Len(llm.sent) + 1].base,
                                        use_json |-> Attempts(llm)[Len(llm.sent) + 1].use_json,
                                        auth |-> FALSE,
                                        answer |-> answer]),
                    !.last_err = IF RaisesOn(llm, answer) THEN Len(llm.sent) + 1 ELSE @,
                    !.outcome = IF ReturnsOn(llm, answer) THEN answer ELSE @]
    /\ UNCHANGED <<text, origin, extracted, pc, pipeline, digests, visitors, widgets>>

\* the loops are over: raise RuntimeError(f"Ollama call failed: {last_err}")
\* (276); explain_service.py raises last_err itself (343-345)
OllamaRaise ==
    /\ llm.client = "ollama"
    /\ llm.outcome = "pending"
    /\ Len(llm.sent) = Len(Attempts(llm))
    /\ llm' = [llm EXCEPT !.outcome = "raised"]
    /\ UNCHANGED <<text, origin, extracted, pc, pipeline, digests, visitors, widgets>>

\* _call_openai_compatible: without LLM_ENDPOINT no request goes out (228-229;
\* in explain_service.py the client refuses the URL without a host), else one
\* POST, with the Authorization header only when LLM_API_KEY is set (232-233)
OpenAiCall ==
    /\ llm.client = "openai_compat"
    /\ llm.outcome = "pending"
    /\ IF ~llm.endpoint
       THEN llm' = [llm EXCEPT !.outcome = "raised"]
       ELSE \E answer \in Answers :
               llm' = [llm EXCEPT
                         !.sent = <<[base |-> "configured", use_json |-> TRUE,
                                     auth |-> llm.api_key, answer |-> answer]>>,
                         !.last_err = IF answer \in {"error", "malformed"} THEN 1 ELSE @,
                         !.outcome = IF answer \in {"error", "malformed"} THEN "raised" ELSE answer]
    /\ UNCHANGED <<text, origin, extracted, pc, pipeline, digests, visitors, widgets>>

ClientNext ==
    \/ OllamaPost
    \/ OllamaRaise
    \/ OpenAiCall

ClientSpec == ClientInit /\ [][ClientNext]_vars

\* the place of a base address in the order configured, in-container, loopback
Rank(base) == IF base = "configured" THEN 1 ELSE IF base = "http://ollama:11434" THEN 2 ELSE 3

\* the self-hosted client has returned a value
OllamaReturned == llm.client = "ollama" /\ llm.outcome \notin {"pending", "raised"}

\* C21: _call_ollama_resilient sends its requests in the order configured
\* endpoint, in-container address, loopback address, with format=json before
\* the plain request for each address; it returns at the first response whose
\* content is not empty, and only there, and sends nothing after it; it sends
\* at most two requests per candidate address.
C21_OllamaOrderAndStop ==
    llm.client = "ollama" =>
        /\ \A i, j \in DOMAIN llm.sent :
              i < j => /\ Rank(llm.sent[i].base) <= Rank(llm.sent[j].base)
                       /\ llm.sent[i].base = llm.sent[j].base
                             => (j = i + 1 /\ llm.sent[i].use_json /\ ~llm.sent[j].use_json)
        /\ \A i \in DOMAIN llm.sent :
              llm.sent[i].answer = "text" => (i = Len(llm.sent) /\ llm.outcome = "text")
        /\ OllamaReturned => llm.sent[Len(llm.sent)].answer = "text"
        /\ Len(llm.sent) <= 2 * Len(candidates(llm))

\* C22: when no request of _call_ollama_resilient got a response with a
\* content, the call ends by raising, with the last error met, and returns no
\* value; that holds too when every request was answered 2xx with an empty
\* content.
C22_OllamaRaisesWhenNothingUsable ==
    (llm.client = "ollama" /\ llm.outcome # "pending"
        /\ \A i \in DOMAIN llm.sent : llm.sent[i].answer # "text")
      => /\ llm.outcome = "raised"
         /\ \A i \in DOMAIN llm.sent : llm.sent[i].answer = "error" => llm.last_err >= i

\* C23: called while LLM_API_KEY is empty, _call_openai_compatible raises and
\* has sent no request.
C23_OpenAiNeedsCredential ==
    (llm.client = "openai_compat" /\ ~llm.api_key)
      => /\ llm.sent = <<>>
         /\ llm.outcome \in {"pending", "raised"}

(***************************************************************************)
(* _get_day_stat (65-79) as the steps of a request thread. _get_cached and *)
(* _set_cached each run under _CACHE_LOCK and are one step; the lock is    *)
(* not held between them.                                                  *)
(***************************************************************************)
\* _get_day_stat(d, site_id) begins in thread t: today is read (66) and the
\* cache is consulted only for an earlier day (69)
StatCall(t, d) ==
    /\ visitors.thr[t].pc \in {"idle", "done"}
    /\ visitors.begun < MaxStatCalls
    /\ d <= visitors.today
    /\ visitors' = [visitors EXCEPT
                      !.begun = @ + 1,
                      !.thr[t] = [pc |-> IF d < visitors.today THEN "check" ELSE "query",
                                  date |-> d, today |-> visitors.today, stats |-> 0,
                                  queried |-> FALSE, seen |-> visitors.cache[d]]]
    /\ UNCHANGED <<text, origin, extracted, pc, pipeline, digests, llm, widgets>>

\* _get_cached (105-111) and the return of line 72
GetCached(t) ==
    /\ visitors.thr[t].pc = "check"
    /\ visitors' = [visitors EXCEPT
                      !.thr[t] = IF visitors.cache[visitors.thr[t].date] # 0
                                 THEN [@ EXCEPT !.pc = "done",
                                                !.stats = visitors.cache[visitors.thr[t].date]]
                                 ELSE [@ EXCEPT !.pc = "query"]]
    /\ UNCHANGED <<text, origin, extracted, pc, pipeline, digests, llm, widgets>>

\* _query_influx (74, 119-166), and the return of line 79 for a day that is not past
QueryInflux(t) ==
    /\ visitors.thr[t].pc = "query"
    /\ visitors' = [visitors EXCEPT
                      !.thr[t] = [@ EXCEPT !.pc = IF visitors.thr[t].date < visitors.thr[t].today
                                                       THEN "set" ELSE "done",
                                           !.stats = visitors.version,
                                           !.queried = TRUE]]
    /\ UNCHANGED <<text, origin, extracted, pc, pipeline, digests, llm, widgets>>

\* _set_cached (114-116) and the return of line 79
SetCached(t) ==
    /\ visitors.thr[t].pc = "set"
    /\ visitors' = [visitors EXCEPT
                      !.cache[visitors.thr[t].date] = visitors.thr[t].stats,
                      !.thr[t].pc = "done"]
    /\ UNCHANGED <<text, origin, extracted, pc, pipeline, digests, llm, widgets>>

\* events arrive in the store: a query gives other numbers from now on
LateEvents ==
    /\ visitors.version < MaxVersion
    /\ visitors' = [visitors EXCEPT !.version = @ + 1]
    /\ UNCHANGED <<text, origin, extracted, pc, pipeline, digests, llm, widgets>>

\* the UTC day changes
Midnight ==
    /\ visitors.today < MaxDay
    /\ visitors' = [visitors EXCEPT !.today = @ + 1]
    /\ UNCHANGED <<text, origin, extracted, pc, pipeline, digests, llm, widgets>>

VisitorsNext ==
    \/ \E t \in StatThreads :
          \/ \E d \in 0..MaxDay : StatCall(t, d)
          \/ GetCached(t)
          \/ QueryInflux(t)
          \/ SetCached(t)
    \/ LateEvents
    \/ Midnight

VisitorsInit == PipelineIdle /\ DigestInit /\ ServicesInit

VisitorsSpec == VisitorsInit /\ [][VisitorsNext]_vars

\* C24: a call for a past day that begins once the day's stats are in _CACHE
\* returns those stats and does not query the store; a call for the current
\* day always queries, and _CACHE never holds a day that is not past.
C24_PastDaysCached ==
    /\ \A t \in StatThreads :
          (visitors.thr[t].pc = "done" /\ visitors.thr[t].seen # 0)
              => /\ ~visitors.thr[t].queried
                 /\ visitors.thr[t].stats = visitors.thr[t].seen
    /\ \A t \in StatThreads :
          (visitors.thr[t].pc = "done" /\ visitors.thr[t].date = visitors.thr[t].today)
              => visitors.thr[t].queried
    /\ \A d \in 0..MaxDay :
          visitors.cache[d] # 0 => d < visitors.today

\* the slice lines 290-310 cut out of t: from the first opening brace to the
\* brace at which depth returns to zero, empty when there is none
Candidate(t) ==
    IF FindBrace(t, 1) = 0 THEN <<>>
    ELSE SubSeq(t, FindBrace(t, 1), ScanBalanced(t, FindBrace(t, 1), 0, FALSE, FALSE))

\* C25: for a valid JSON object inside prose or a code fence, the candidate
\* _extract_json parses is exactly the object's text, whatever braces and
\* escaped quotes its strings hold, and the object is returned unchanged.
C25_BalancedSliceExact ==
    (Extracted /\ origin.kind \in {"prose", "fenced"}) =>
        /\ ~loads(text).ok
        /\ Candidate(text) = dumps(origin.obj)
        /\ ~extracted.raised
        /\ extracted.val = origin.obj

\* an object in prose whose title holds an escaped quote and a closing brace
C25_Witness ==
    /\ Extracted
    /\ origin.kind = "prose"
    /\ <<"title">> \in DOMAIN origin.obj.members
    /\ origin.obj.members[<<"title">>] = JStr(<<"a", "\"", "}">>)
    /\ <<"a">> \in DOMAIN origin.obj.members
    /\ origin.obj.members[<<"a">>] = JStr(<<"{">>)
    /\ extracted.val = origin.obj

\* _collect_widget_data and build() on their own, the provider disabled
CollectInit ==
    /\ env \in CollectorEnvironments
    /\ provider = "none"
    /\ request \in Requests
    /\ pc = "collect"
    /\ bundle = JNull
    /\ deterministic = JNull
    /\ reply = NoReply
    /\ report = NotCalled
    /\ calls = 0
    /\ fetched = {}
    /\ collects = 0
    /\ served = <<>>
    /\ DigestInit
    /\ ServicesInit
    /\ text = <<>>
    /\ origin = [kind |-> "reply", obj |-> JNull]
    /\ extracted = NotCalled

CollectNext == Collect \/ Build

CollectSpec == CollectInit /\ [][CollectNext]_vars

\* the stored result of an endpoint that answered carries the answer's array
\* under key cut to its first cap entries, and whole when it has no more
StoredCut(kept, body, key, cap) ==
    IsList(Field(body, key)) =>
        /\ IsList(Field(kept, key))
        /\ Len(Field(kept, key).items) <= cap
        /\ Field(kept, key).items = Prefix(Field(body, key).items, cap)

\* what the bundle holds for route rel under out[key] is the capped answer
StoredCapped(out, key, rel) ==
    (/\ Has(out, key)
     /\ env.surface[rel].status = "ok"
     /\ IsDict(env.surface[rel].body)
     /\ ~Has(Field(out, key), "_skip"))
        => /\ StoredCut(Field(out, key), env.surface[rel].body, "rows", RowsCap)
           /\ StoredCut(Field(out, key), env.surface[rel].body, "buckets", BucketsCap)

\* C26: after _collect_widget_data, every fetched result in the bundle (the
\* known widget keys, the by-path detail, every entry under misc) has at most
\* 80 rows and 60 buckets: the first 80/60 of a longer answer, a shorter one whole.
C26_BundleArraysCapped ==
    IsDict(bundle) =>
        /\ \A i \in DOMAIN SimpleGets : StoredCapped(bundle, SimpleGets[i][1], SimpleGets[i][2])
        /\ StoredCapped(bundle, "top_buttons_by_path", "/top-buttons/by-path")
        /\ \A rel \in AllRoutes \ KnownRels : StoredCapped(Field(bundle, "misc"), MiscKey(rel), rel)

\* the candidate list the path-list endpoint answered (its paths, else its
\* rows), empty when the GET failed or the answer holds no list
Listed ==
    LET answer == env.surface["/top-buttons/paths"]
        named == IF answer.status = "ok" /\ IsDict(answer.body)
                 THEN IF Truthy(Field(answer.body, "paths")) THEN Field(answer.body, "paths")
                      ELSE Field(answer.body, "rows")
                 ELSE JNull
    IN IF IsList(named) THEN named.items ELSE <<>>

\* the path the first candidate names: the candidate itself, or its path field
FirstPath == IF Listed = <<>> THEN JNull
             ELSE IF IsDict(Listed[1]) THEN Field(Listed[1], "path") ELSE Listed[1]

\* C27: the by-path detail is fetched only after the path list was fetched and
\* named a first path, with that path as its parameter; when there is no such
\* path no detail GET is sent and _skip is recorded; a failed detail GET is
\* recorded as _fail.
C27_ByPathTwoStep ==
    (IsDict(bundle) /\ {"/top-buttons/paths", "/top-buttons/by-path"} \subseteq Discovered) =>
        /\ Sent("/top-buttons/paths")
        /\ \A g \in fetched :
              g.rel = "/top-buttons/by-path" => (Listed # <<>> /\ Truthy(FirstPath) /\ g.path = FirstPath)
        /\ ~Truthy(FirstPath) =>
              /\ ~Sent("/top-buttons/by-path")
              /\ Has(Field(bundle, "top_buttons_by_path"), "_skip")
        /\ Truthy(FirstPath) =>
              /\ Sent("/top-buttons/by-path")
              /\ IF env.surface["/top-buttons/by-path"].status = "ok"
                 THEN Field(bundle, "top_buttons_by_path") = env.surface["/top-buttons/by-path"].body
                 ELSE Has(Field(bundle, "top_buttons_by_path"), "_fail")

\* a list of two paths was answered and the detail of the first one was fetched
C27_Witness ==
    /\ IsDict(bundle)
    /\ Len(Listed) = 2
    /\ Listed[1] # Listed[2]
    /\ GetOf("/top-buttons/by-path", Str("/home")) \in fetched
    /\ Has(bundle, "top_buttons_by_path")

\* the document build() gives for the bundle collected from e
BuiltFor(e, req) ==
    Bind(_collect_widget_data(e), LAMBDA got :
        IF got.raised THEN Raised
        ELSE Bind(InsightGenerator(got.val, req), LAMBDA g : IF g.raised THEN Raised ELSE build(g)))

StabilityOf(doc) == Field(Field(doc, "radar_scores").items[Len(RadarAxes)], "score").num

\* (number of missing widgets, stability score) of the document of every bundle
StabilityByMissing ==
    {<<Cardinality(MissingWidgets(d.val)), StabilityOf(d.val)>> :
        d \in {BuiltFor(e, req) : e \in CollectorEnvironments, req \in Requests} \ {Raised}}

\* C28: the radar_scores build() produces are the five axes performance,
\* experience, growth, search, stability in that order, each score an integer
\* in 20..95; and no document built from a bundle with more missing widgets
\* has a higher stability score.
C28_RadarScores ==
    deterministic # JNull =>
        /\ IsList(Field(deterministic, "radar_scores"))
        /\ Len(Field(deterministic, "radar_scores").items) = Len(RadarAxes)
        /\ \A i \in DOMAIN RadarAxes :
              /\ Field(Field(deterministic, "radar_scores").items[i], "axis") = Str(RadarAxes[i])
              /\ Field(Field(deterministic, "radar_scores").items[i], "score").kind = "num"
              /\ Field(Field(deterministic, "radar_scores").items[i], "score").num \in 20..95
        /\ \A p \in StabilityByMissing :
              p[1] > Cardinality(MissingWidgets(deterministic)) => p[2] <= StabilityOf(deterministic)

\* a document built with one widget missing, its stability under that of a full bundle
C28_Witness ==
    /\ deterministic # JNull
    /\ Cardinality(MissingWidgets(deterministic)) = 1
    /\ StabilityOf(deterministic) > 20
    /\ \E p \in StabilityByMissing : p[1] = 0 /\ p[2] > StabilityOf(deterministic)
    /\ \E p \in StabilityByMissing : p[1] > 1 /\ p[2] = 20

(***************************************************************************)
(* The store step of generate_widget_from_requirement (297-310) and        *)
(* list_widgets / get_widget (153-163), thread by thread. pc names the     *)
(* line a thread stands before.                                            *)
(***************************************************************************)
At(t, op, pc0) == widgets.thr[t].op = op /\ widgets.thr[t].pc = pc0

\* a request arrives: generate has a valid spec and reaches line 297, list
\* (or get) reaches its call of _ensure_loaded
StoreCall(t, op) ==
    /\ widgets.thr[t].pc \in {"idle", "returned"}
    /\ widgets.begun < MaxStoreCalls
    /\ widgets' = [widgets EXCEPT !.begun = @ + 1,
                                  !.thr[t] = [op |-> op, pc |-> IF op = "generate" THEN "with" ELSE "ensure"]]
    /\ UNCHANGED <<text, origin, extracted, pc, pipeline, digests, llm, visitors>>

\* line 297: with _STORE_LOCK, entered once the lock is free
EnterStoreLock(t) ==
    /\ At(t, "generate", "with")
    /\ widgets.holder = 0
    /\ widgets' = [widgets EXCEPT !.holder = t, !.thr[t].pc = "ensure"]
    /\ UNCHANGED <<text, origin, extracted, pc, pipeline, digests, llm, visitors>>

\* lines 41-42: _ensure_loaded returns at once when _LOADED is set
EnsureLoadedCheck(t) ==
    /\ widgets.thr[t].pc = "ensure"
    /\ widgets' = [widgets EXCEPT !.thr[t].pc = IF widgets.loaded THEN "loaded" ELSE "ensure_with"]
    /\ UNCHANGED <<text, origin, extracted, pc, pipeline, digests, llm, visitors>>

\* lines 43-66: with _STORE_LOCK, entered once the lock is free, whoever holds
\* it; the file is read unless another thread has done so, and the lock released
EnsureLoadedLoad(t) ==
    /\ widgets.thr[t].pc = "ensure_with"
    /\ widgets.holder = 0
    /\ widgets' = [widgets EXCEPT !.loaded = TRUE, !.thr[t].pc = "loaded"]
    /\ UNCHANGED <<text, origin, extracted, pc, pipeline, digests, llm, visitors>>

\* lines 299-310: the widget is registered and saved, the lock released
Register(t) ==
    /\ At(t, "generate", "loaded")
    /\ widgets' = [widgets EXCEPT !.count = @ + 1, !.holder = 0, !.thr[t].pc = "returned"]
    /\ UNCHANGED <<text, origin, extracted, pc, pipeline, digests, llm, visitors>>

\* lines 155 and 160-163: list_widgets and get_widget read _WIDGETS and return
ReadWidgets(t) ==
    /\ At(t, "list", "loaded")
    /\ widgets' = [widgets EXCEPT !.thr[t].pc = "returned"]
    /\ UNCHANGED <<text, origin, extracted, pc, pipeline, digests, llm, visitors>>

\* what thread t does once its call has begun
StoreStep(t) ==
    \/ EnterStoreLock(t)
    \/ EnsureLoadedCheck(t)
    \/ EnsureLoadedLoad(t)
    \/ Register(t)
    \/ ReadWidgets(t)

StoreNext ==
    \E t \in StoreThreads :
        \/ \E op \in {"generate", "list"} : StoreCall(t, op)
        \/ StoreStep(t)

StoreInit == PipelineIdle /\ DigestInit /\ ServicesInit

\* a thread that can take a step is scheduled in the end
StoreSpec == StoreInit /\ [][StoreNext]_vars /\ \A t \in StoreThreads : WF_vars(StoreStep(t))

\* C29: a call of generate_widget_from_requirement that reaches its store step
\* never waits for _STORE_LOCK while holding it, registers its widget and
\* returns; and a list_widgets or get_widget call returns too.
C29_GenerateCompletes ==
    /\ [](\A t \in StoreThreads : ~(widgets.thr[t].pc = "ensure_with" /\ widgets.holder = t))
    /\ \A t \in StoreThreads : At(t, "generate", "with") ~> At(t, "generate", "returned")
    /\ \A t \in StoreThreads : At(t, "list", "ensure") ~> At(t, "list", "returned")

\* C30: the eviction of _cache_get removes only the expired entry its thread
\* examined, never a fresh entry stored under the key since, so an entry of
\* _cache_set leaves the cache only once its time to live has elapsed.
C30_EvictsOnlyExamined ==
    [][/\ \A t \in Threads :
             (thr[t].pc = "pop" /\ thr'[t].pc = "query") => cache \in {<<>>, thr[t].v}
       /\ (cache # <<>> /\ cache' = <<>>) => clock - cache[1] > TTL]_vars

====
